---------------------------- MODULE Spec2Model ----------------------------
(***************************************************************************)
(* Model of the simulated-annealing floorplanner of block_placement        *)
(* (src/src/dpl/src/FillerPlacement.cpp, namespace block_placement):       *)
(* Block, SimulatedAnnealingCore and the multi-level driver Floorplan.     *)
(*                                                                         *)
(* Numbers.  The program computes in float.  The model computes in exact   *)
(* rational arithmetic: a number is a pair <<n, d>> with d > 0 in lowest   *)
(* terms.  Vectors are functions on 0 .. N-1, as in the source.            *)
(***************************************************************************)
EXTENDS Integers, Sequences, FiniteSets, TLC

VARIABLES
    cfg,            \* constructor arguments of the core (read-only after Init)
    blocks,         \* blocks_      : 0..N-1 -> Block
    pos_seq,        \* pos_seq_
    neg_seq,        \* neg_seq_
    met,            \* width_, height_, area_ and the six cost terms
    pre_blocks,     \* pre_blocks_
    pre_pos_seq,    \* pre_pos_seq_
    pre_neg_seq,    \* pre_neg_seq_
    pre_met,        \* pre_width_ ... pre_notch_penalty_
    action_id,      \* action_id_
    block_id,       \* block_id_
    sa,             \* the locals of FastSA
    pc,             \* position of the caller / of FastSA
    hist,           \* history: the layout before the last Perturb, the
                    \* layout of the last accepted state, the outer steps
                    \* done in the current schedule (steps) and in the
                    \* schedule that ended last (ended, -1 if none)
    fp,             \* Floorplan: its loop position, its worker threads,
                    \* best_cost, best_sa and the workers it has read
    fill            \* Opendp filler placement: site_width_, the sorted
                    \* filler masters by implant, gap_fillers_ and the
                    \* last call of gapFillers

vars == <<cfg, blocks, pos_seq, neg_seq, met, pre_blocks, pre_pos_seq,
          pre_neg_seq, pre_met, action_id, block_id, sa, pc, hist, fp, fill>>

-----------------------------------------------------------------------------
(* Bounds of the model *)

\* widths and heights enumerated for the packing check are 0 .. MaxDim
MaxDim == 2

\* the packing check places 1 .. MaxPackBlocks blocks
MaxPackBlocks == 3

\* num_level and num_worker of Floorplan
NumLevel == 2
NumWorker == 2

\* steps a worker thread takes inside FastSA before it returns
WorkerSteps == 2

\* the master seeds of Floorplan are 0 .. MaxSeed
MaxSeed == 3

\* resolution of the rounding of irrational square roots
SqrtScale == 4

\* max_num_step and perturb_per_step of the runs
MaxNumStep == 2
PerturbPerStep == 1

\* the gaps handed to gapFillers are 1 .. MaxGap sites, the filler masters
\* are 1 .. MaxFillerSites sites wide, site_width_ is 1 .. MaxSiteWidth, and
\* gapFillers is called up to MaxFillCalls times after gap_fillers_.clear()
MaxGap == 5
MaxFillerSites == 3
MaxSiteWidth == 2
MaxFillCalls == 3

-----------------------------------------------------------------------------
(* Exact rational arithmetic standing for float *)

Abs(n) == IF n < 0 THEN -n ELSE n

RECURSIVE GCD(_, _)
GCD(a, b) == IF b = 0 THEN a ELSE GCD(b, a % b)

\* a divisor that is not zero
NonZero(g) == IF g = 0 THEN 1 ELSE g

Sgn(d) == IF d < 0 THEN -1 ELSE 1

Reduce(n, d, g) == <<n \div g, d \div g>>

\* the rational n/d in lowest terms with a positive denominator; a float
\* division by zero leaves <<1, 0>> (inf), <<-1, 0>> (-inf) or <<0, 0>> (NaN)
R(n, d) == Reduce(n, d, Sgn(d) * NonZero(GCD(Abs(n), Abs(d))))

NaN == <<0, 0>>

\* the largest finite float: above every value the arithmetic below yields,
\* below inf; it is only compared
FLT_MAX == <<1, -1>>

\* the order of -inf (-2), the finite values (0), FLT_MAX (1) and inf (2)
InfRank(a) == IF a[2] > 0 THEN 0 ELSE a[1] * (2 + a[2])

I(n) == <<n, 1>>
Zero == I(0)

\* a[1]/a[2] + b[1]/b[2] over the least common denominator, g the common
\* divisor of the denominators
AddOver(a, b, g) == R(a[1] * (b[2] \div g) + b[1] * (a[2] \div g), (a[2] \div g) * b[2])
RAdd(a, b) == IF a[2] = 0 /\ a = b THEN a ELSE AddOver(a, b, NonZero(GCD(a[2], b[2])))
RSub(a, b) == RAdd(a, <<-b[1], b[2]>>)
\* the product, the common factors g1 of a[1], b[2] and g2 of b[1], a[2]
\* taken out before multiplying
MulOver(a, b, g1, g2) == R((a[1] \div g1) * (b[1] \div g2), (a[2] \div g2) * (b[2] \div g1))
RMul(a, b) == MulOver(a, b, NonZero(GCD(Abs(a[1]), b[2])), NonZero(GCD(Abs(b[1]), a[2])))
Inverse(b) == IF b[1] < 0 THEN <<-b[2], -b[1]>> ELSE <<b[2], b[1]>>
RDiv(a, b) == RMul(a, Inverse(b))
\* n1/d1 < n2/d2 for positive denominators, by the integer parts and then
\* the remainders
RECURSIVE FracLess(_, _, _, _)
FracLess(n1, d1, n2, d2) ==
    IF n1 \div d1 # n2 \div d2 THEN n1 \div d1 < n2 \div d2
    ELSE IF n2 % d2 = 0 THEN FALSE
    ELSE IF n1 % d1 = 0 THEN TRUE
    ELSE FracLess(d2, n2 % d2, d1, n1 % d1)
\* a comparison with NaN is false
RLt(a, b) ==
    IF a[2] > 0 /\ b[2] > 0 THEN FracLess(a[1], a[2], b[1], b[2])
    ELSE a # NaN /\ b # NaN /\ InfRank(a) < InfRank(b)
RLe(a, b) ==
    IF a[2] > 0 /\ b[2] > 0 THEN ~FracLess(b[1], b[2], a[1], a[2])
    ELSE a # NaN /\ b # NaN /\ InfRank(a) <= InfRank(b)
RGt(a, b) == RLt(b, a)
RGe(a, b) == RLe(b, a)
RMax(a, b) == IF RLt(a, b) THEN b ELSE a
RMin(a, b) == IF RLt(b, a) THEN b ELSE a
RAbs(a) == <<Abs(a[1]), a[2]>>

-----------------------------------------------------------------------------
(* Vectors *)

Size(v) == Cardinality(DOMAIN v)
Idx(v) == 0 .. Size(v) - 1

\* all permutations of 0 .. n-1, as vectors
Perms(n) == {f \in [0 .. n - 1 -> 0 .. n - 1] : \A i, j \in 0 .. n - 1 : f[i] = f[j] => i = j}

IsPermutation(s, n) ==
    /\ DOMAIN s = 0 .. n - 1
    /\ \A k \in 0 .. n - 1 : Cardinality({i \in 0 .. n - 1 : s[i] = k}) = 1

\* v[i] = v[j] without the exchange
SwapAssign(v, i, j) == [v EXCEPT ![i] = v[j]]

\* std::swap(v[i], v[j])
Swap(v, i, j) == [v EXCEPT ![i] = v[j], ![j] = v[i]]

-----------------------------------------------------------------------------
(* Block *)

\* a 0-based vector from a tuple
Vec(s) == [i \in 0 .. Len(s) - 1 |-> s[i + 1]]

\* operator< of std::pair<float, float>
PairLe(p, q) == RLt(p[1], q[1]) \/ (p[1] = q[1] /\ RLe(p[2], q[2]))

\* std::sort(aspect_ratio_.begin(), aspect_ratio_.end())
SortPairs(v) ==
    LET f == CHOOSE g \in Perms(Size(v)) :
                 \A i, j \in Idx(v) : i < j => PairLe(v[g[i]], v[g[j]])
    IN  [i \in Idx(v) |-> v[f[i]]]

\* floor of the square root of a natural number, by bisection on
\* lo * lo <= n < hi * hi
RECURSIVE ISqrtIn(_, _, _)
ISqrtIn(n, lo, hi) ==
    IF hi - lo <= 1 THEN lo
    ELSE LET mid == (lo + hi) \div 2
         IN  IF mid * mid <= n THEN ISqrtIn(n, mid, hi) ELSE ISqrtIn(n, lo, mid)

ISqrt(n) == ISqrtIn(n, 0, IF n < 46340 THEN n + 1 ELSE 46341)

\* std::sqrt: exact on squares of rationals, otherwise rounded down to a
\* multiple of 1 / SqrtScale, as float rounds to its grid
RSqrt(a) ==
    LET kn == ISqrt(a[1])
        kd == ISqrt(a[2])
    IN  IF kn * kn = a[1] /\ kd * kd = a[2]
        THEN R(kn, kd)
        ELSE R(ISqrt((a[1] * SqrtScale * SqrtScale) \div a[2]), SqrtScale)

\* Block::Block; x_, y_ and the alignment flag are those of the caller's draw
NewBlock(area, num_macro, aspect_ratio) ==
    LET ar == IF num_macro >= 1 THEN aspect_ratio ELSE SortPairs(aspect_ratio)
        height_low(i) == RSqrt(RMul(area, ar[i][1]))
        height_high(i) == RSqrt(RMul(area, ar[i][2]))
    IN  [area |-> area,
         num_macro |-> num_macro,
         is_soft |-> (num_macro = 0),
         aspect_ratio |-> ar,
         height_limit |->
            [i \in Idx(ar) |->
                IF num_macro >= 1 THEN <<ar[i][2], ar[i][2]>>
                ELSE <<height_low(i), height_high(i)>>],
         width_limit |->
            [i \in Idx(ar) |->
                IF num_macro >= 1 THEN <<ar[i][1], ar[i][1]>>
                ELSE <<RDiv(area, height_low(i)), RDiv(area, height_high(i))>>],
         width |-> Zero, height |-> Zero, x |-> Zero, y |-> Zero,
         flag |-> FALSE]

\* while (vec_it->second > width) vec_it++;
RECURSIVE WidthIt(_, _, _)
WidthIt(limit, k, width) ==
    IF RGt(limit[k][2], width) THEN WidthIt(limit, k + 1, width) ELSE k

\* the width set without the height that goes with it
ChangeWidthOnly(b, width) ==
    IF b.is_soft = FALSE THEN b ELSE [b EXCEPT !.width = width]

\* Block::ChangeWidth
ChangeWidth(b, width) ==
    LET wl == b.width_limit
        last == Size(wl) - 1
        set(w) == [b EXCEPT !.width = w, !.height = RDiv(b.area, w)]
    IN  IF b.is_soft = FALSE THEN b
        ELSE IF RGe(width, wl[0][1]) THEN set(wl[0][1])
        ELSE IF RLe(width, wl[last][2]) THEN set(wl[last][2])
        ELSE LET k == WidthIt(wl, 0, width)
             IN  IF RLe(width, wl[k][1]) THEN set(width)
                 ELSE LET width_low == wl[k][1]
                          width_high == wl[k - 1][2]
                      IN  IF RGt(RSub(width, width_low), RSub(width_high, width))
                          THEN set(width_high)
                          ELSE set(width_low)

\* while (vec_it->second < height) vec_it++;
RECURSIVE HeightIt(_, _, _)
HeightIt(limit, k, height) ==
    IF RLt(limit[k][2], height) THEN HeightIt(limit, k + 1, height) ELSE k

\* Block::ChangeHeight
ChangeHeight(b, height) ==
    LET hl == b.height_limit
        last == Size(hl) - 1
        set(h) == [b EXCEPT !.height = h, !.width = RDiv(b.area, h)]
    IN  IF b.is_soft = FALSE THEN b
        ELSE IF RLe(height, hl[0][1]) THEN set(hl[0][1])
        ELSE IF RGe(height, hl[last][2]) THEN set(hl[last][2])
        ELSE LET k == HeightIt(hl, 0, height)
             IN  IF RGe(height, hl[k][1]) THEN set(height)
                 ELSE LET height_high == hl[k][1]
                          height_low == hl[k - 1][2]
                      IN  IF RGt(RSub(height, height_low), RSub(height_high, height))
                          THEN set(height_high)
                          ELSE set(height_low)

\* Block::ResizeHardBlock; index1 is floor(draw * aspect_ratio_.size())
ResizeHardBlock(b, index1) ==
    IF b.num_macro = 0 THEN b
    ELSE [b EXCEPT !.width = b.aspect_ratio[index1][1],
                   !.height = b.aspect_ratio[index1][2]]

\* Block::ChooseAspectRatioRandom; index1 as above, num the second draw
ChooseAspectRatioRandom(b, index1, num) ==
    LET ar_low == b.aspect_ratio[index1][1]
        ar_high == b.aspect_ratio[index1][2]
        ar == IF ar_low = ar_high THEN ar_low
              ELSE RAdd(ar_low, RMul(RSub(ar_high, ar_low), num))
        h == RSqrt(RMul(b.area, ar))
    IN  [b EXCEPT !.height = h, !.width = RDiv(b.area, h)]

\* Block::SetRandom
SetRandom(b, index1, num) ==
    IF b.num_macro = 0 THEN ChooseAspectRatioRandom(b, index1, num)
    ELSE ResizeHardBlock(b, index1)

\* Block::IsResizeable
IsResizeable(b) == b.num_macro = 0 \/ Size(b.aspect_ratio) > 1

\* Block::ShrinkSoftBlock
ShrinkSoftBlock(b, width_factor, height_factor) ==
    LET w == RMul(b.width, width_factor)
        h == RMul(b.height, height_factor)
    IN  [b EXCEPT !.width = w, !.height = h, !.area = RMul(w, h)]

-----------------------------------------------------------------------------
(* SimulatedAnnealingCore::PackFloorplan *)

\* match[b].second after the loop "match[neg_seq_[i]].second = i"
MatchSecond(neg, b) ==
    LET S == {i \in DOMAIN neg : neg[i] = b}
    IN  IF S = {} THEN 0 ELSE CHOOSE i \in S : \A k \in S : k <= i

\* for (j = p; j < n; j++) if (t > length[j]) length[j] = t; else break;
RECURSIVE RaiseLength(_, _, _)
RaiseLength(length, j, t) ==
    IF j >= Size(length) \/ ~RGt(t, length[j])
    THEN length
    ELSE RaiseLength([length EXCEPT ![j] = t], j + 1, t)

\* one sweep over the sequence pos: the coordinate of each block and the
\* final length vector; size[b] is the width (X sweep) or height (Y sweep)
RECURSIVE PackSweep(_, _, _, _, _, _)
PackSweep(pos, neg, size, i, length, coord) ==
    IF i >= Size(pos)
    THEN [coord |-> coord, length |-> length]
    ELSE LET b == pos[i]
             p == MatchSecond(neg, b)
             t == RAdd(length[p], size[b])
         IN  PackSweep(pos, neg, size, i + 1,
                       RaiseLength(length, p, t),
                       [coord EXCEPT ![b] = length[p]])

\* the Y sweep run on pos_seq_ itself
ReverseSkipped(pos) == pos

\* pos_seq[i] = pos_seq_[num_blocks - 1 - i]
Reverse(pos) == [i \in DOMAIN pos |-> pos[Size(pos) - 1 - i]]

\* the blocks with their new x, y and the packed width_, height_, area_
PackFloorplan(bs, pos, neg) ==
    LET n == Size(bs)
        zeros == [i \in 0 .. n - 1 |-> Zero]
        sx == PackSweep(pos, neg, [b \in 0 .. n - 1 |-> bs[b].width], 0, zeros, zeros)
        sy == PackSweep(Reverse(pos), neg, [b \in 0 .. n - 1 |-> bs[b].height], 0, zeros, zeros)
        w == sx.length[n - 1]
        h == sy.length[n - 1]
    IN  [blocks |-> [b \in 0 .. n - 1 |->
                        [bs[b] EXCEPT !.x = sx.coord[b], !.y = sy.coord[b]]],
         width |-> w, height |-> h, area |-> RMul(w, h)]


-----------------------------------------------------------------------------
(* The perturbation moves of SimulatedAnnealingCore.  A draw of             *)
(* floor(distribution_(generator_) * n) is an index in 0 .. n-1.            *)

\* SimulatedAnnealingCore::SingleSwap, on the sequence chosen by flag
SingleSwap(s, index1, index2) == Swap(s, index1, index2)

\* both sequences exchanged at the positions index1 and index2
DoubleSwapByIndex(pos, neg, index1, index2) ==
    [pos |-> Swap(pos, index1, index2), neg |-> Swap(neg, index1, index2)]

\* SimulatedAnnealingCore::DoubleSwap
DoubleSwap(pos, neg, index1, index2) ==
    LET p == Swap(pos, index1, index2)
        neg_index1 == MatchSecond(neg, p[index1])
        neg_index2 == MatchSecond(neg, p[index2])
    IN  [pos |-> p, neg |-> Swap(neg, neg_index1, neg_index2)]

\* the scans of Resize over all blocks: the nearest far edge above b2
\* (up) or below b2 (~up), starting from acc
RECURSIVE NearestEdge(_, _, _, _, _)
NearestEdge(edge, i, b2, acc, up) ==
    IF i >= Size(edge) THEN acc
    ELSE LET cur == edge[i]
             hit == IF up THEN RGt(cur, b2) /\ RLt(cur, acc)
                    ELSE RLt(cur, b2) /\ RGt(cur, acc)
         IN  NearestEdge(edge, i + 1, b2, IF hit THEN cur ELSE acc, up)

\* SimulatedAnnealingCore::Resize on the block index1 the sampling loop
\* ended with; option is the bucket of the third draw (1: <= 0.2, ...,
\* 5: > 0.8), ar_index and num are the draws of the Block methods
Resize(bs, outline_width, outline_height, index1, option, ar_index, num) ==
    LET b == bs[index1]
        x2 == [i \in Idx(bs) |-> RAdd(bs[i].x, bs[i].width)]
        y2 == [i \in Idx(bs) |-> RAdd(bs[i].y, bs[i].height)]
        put(nb) == [bs EXCEPT ![index1] = nb]
    IN  IF b.num_macro > 0 THEN put(ResizeHardBlock(b, ar_index))
        ELSE IF option = 1 THEN put(ChooseAspectRatioRandom(b, ar_index, num))
        ELSE IF option = 2 THEN
            IF RGe(b.x, outline_width) THEN bs
            ELSE LET e_x2 == NearestEdge(x2, 0, x2[index1], outline_width, TRUE)
                 IN  put(ChangeWidth(b, RSub(e_x2, b.x)))
        ELSE IF option = 3 THEN
            LET d_x2 == NearestEdge(x2, 0, x2[index1], b.x, FALSE)
            IN  IF RLe(d_x2, b.x) THEN bs
                ELSE put(ChangeWidth(b, RSub(d_x2, b.x)))
        ELSE IF option = 4 THEN
            IF RGe(b.y, outline_height) THEN bs
            ELSE LET a_y2 == NearestEdge(y2, 0, y2[index1], outline_height, TRUE)
                 IN  put(ChangeHeight(b, RSub(a_y2, b.y)))
        ELSE
            LET c_y2 == NearestEdge(y2, 0, y2[index1], b.y, FALSE)
            IN  IF RLe(c_y2, b.y) THEN bs
                ELSE put(ChangeHeight(b, RSub(c_y2, b.y)))

\* every block shrunk, macros included
ShrinkAllBlocks(bs, shrink_factor) ==
    [i \in Idx(bs) |-> ShrinkSoftBlock(bs[i], shrink_factor, shrink_factor)]

\* SimulatedAnnealingCore::ShrinkBlocks
ShrinkBlocks(bs, shrink_factor) ==
    [i \in Idx(bs) |->
        IF bs[i].num_macro = 0
        THEN ShrinkSoftBlock(bs[i], shrink_factor, shrink_factor)
        ELSE bs[i]]

-----------------------------------------------------------------------------
(* The cost terms *)

RECURSIVE RSumFrom(_, _)
RSumFrom(f, i) == IF i >= Size(f) THEN Zero ELSE RAdd(f[i], RSumFrom(f, i + 1))

\* the += accumulation of a float over a loop
RSum(f) == RSumFrom(f, 0)

RECURSIVE RFoldMin(_, _, _)
RFoldMin(f, i, acc) ==
    IF i >= Size(f) THEN acc ELSE RFoldMin(f, i + 1, RMin(acc, f[i]))

RECURSIVE RFoldMax(_, _, _)
RFoldMax(f, i, acc) ==
    IF i >= Size(f) THEN acc ELSE RFoldMax(f, i + 1, RMax(acc, f[i]))

\* SimulatedAnnealingCore::CalculateOutlinePenalty
CalculateOutlinePenalty(c, width, height) ==
    LET max_width == RMax(c.outline_width, width)
        max_height == RMax(c.outline_height, height)
    IN  RMax(Zero, RSub(RMul(max_width, max_height),
                        RMul(c.outline_width, c.outline_height)))

\* SimulatedAnnealingCore::CalculateMacroBlockagePenalty
CalculateMacroBlockagePenalty(c, bs) ==
    LET term(r, i) ==
            LET lx == bs[i].x
                ly == bs[i].y
                ux == RAdd(lx, bs[i].width)
                uy == RAdd(ly, bs[i].height)
            IN  IF bs[i].num_macro > 0
                   /\ ~(RLe(ux, r.lx) \/ RGe(lx, r.ux) \/ RLe(uy, r.ly) \/ RGe(ly, r.uy))
                THEN RMul(RSub(RMin(ux, r.ux), RMax(lx, r.lx)),
                          RSub(RMin(uy, r.uy), RMax(ly, r.ly)))
                ELSE Zero
    IN  RSum([k \in Idx(c.regions) |->
                RSum([i \in Idx(bs) |-> term(c.regions[k], i)])])

\* v > 0.0 ? v : 0.0
NotBelowZero(v) == IF RGt(v, Zero) THEN v ELSE Zero

\* SimulatedAnnealingCore::CalculateLocationPenalty; a location carries the
\* block index location_map_ resolved for it
CalculateLocationPenalty(c, bs) ==
    LET Dist(block_x, location_x, width) ==
            NotBelowZero(RSub(RAbs(RSub(block_x, location_x)), width))
        x_dist(b, l) == Dist(RAdd(b.x, RDiv(b.width, I(2))),
                             RDiv(RAdd(l.lx, l.ux), I(2)),
                             RDiv(RAdd(b.width, RSub(l.ux, l.lx)), I(2)))
        y_dist(b, l) == Dist(RAdd(b.y, RDiv(b.height, I(2))),
                             RDiv(RAdd(l.ly, l.uy), I(2)),
                             RDiv(RAdd(b.height, RSub(l.uy, l.ly)), I(2)))
        term(l) == RMin(x_dist(bs[l.block], l), y_dist(bs[l.block], l))
    IN  RSum([k \in Idx(c.locations) |-> term(c.locations[k])])

\* SimulatedAnnealingCore::CalculateBoundaryPenalty
CalculateBoundaryPenalty(c, bs) ==
    LET term(b) ==
            LET ux == RAdd(b.x, b.width)
                uy == RAdd(b.y, b.height)
                lx == RMin(b.x, RAbs(RSub(c.outline_width, ux)))
                ly == RMin(b.y, RAbs(RSub(c.outline_height, uy)))
                m == RMin(lx, ly)
            IN  IF b.num_macro > 0
                THEN RMul(RMul(m, m), I(b.num_macro * b.num_macro))
                ELSE Zero
    IN  RSum([i \in Idx(bs) |-> term(bs[i])])

\* SimulatedAnnealingCore::CalculateWirelength; a net lists block indices
\* (block_map_ resolved) and the coordinates of its terminals
CalculateWirelength(c, bs) ==
    LET term(net) ==
            LET bl == net.blocks
                tm == net.terminals
                lx == RFoldMin([i \in Idx(tm) |-> tm[i][1]], 0,
                        RFoldMin([i \in Idx(bl) |-> bs[bl[i]].x], 0, FLT_MAX))
                ly == RFoldMin([i \in Idx(tm) |-> tm[i][2]], 0,
                        RFoldMin([i \in Idx(bl) |-> bs[bl[i]].y], 0, FLT_MAX))
                ux == RFoldMax([i \in Idx(tm) |-> tm[i][1]], 0,
                        RFoldMax([i \in Idx(bl) |->
                                    RAdd(bs[bl[i]].x, bs[bl[i]].width)], 0, Zero))
                uy == RFoldMax([i \in Idx(tm) |-> tm[i][2]], 0,
                        RFoldMax([i \in Idx(bl) |->
                                    RAdd(bs[bl[i]].y, bs[bl[i]].height)], 0, Zero))
            IN  RMul(RAdd(RAbs(RSub(ux, lx)), RAbs(RSub(uy, ly))), I(net.weight))
    IN  RSum([k \in Idx(c.nets) |-> term(c.nets[k])])

\* the same test with the outline doubled
IsFeasibleDoubled(c, width, height) ==
    /\ RLe(width, RMul(c.outline_width, R(2001, 1000)))
    /\ RLe(height, RMul(c.outline_height, R(2001, 1000)))

\* SimulatedAnnealingCore::IsFeasible; tolerance = 0.001
IsFeasible(c, width, height) ==
    /\ RLe(width, RMul(c.outline_width, R(1001, 1000)))
    /\ RLe(height, RMul(c.outline_height, R(1001, 1000)))

\* SimulatedAnnealingCore::CalculateOverlap: the sum of the pairwise overlap
\* areas, none of them negative, is positive iff one of them is
CalculateOverlap(bs) ==
    LET M == {i \in Idx(bs) : bs[i].num_macro > 0}
        ov(i, j) ==
            LET x1 == RMax(bs[i].x, bs[j].x)
                x2 == RMin(RAdd(bs[i].x, bs[i].width), RAdd(bs[j].x, bs[j].width))
                y1 == RMax(bs[i].y, bs[j].y)
                y2 == RMin(RAdd(bs[i].y, bs[i].height), RAdd(bs[j].y, bs[j].height))
            IN  RMul(RMax(RSub(x2, x1), Zero), RMax(RSub(y2, y1), Zero))
    IN  \E i, j \in M : i < j /\ RGt(ov(i, j), Zero)

-----------------------------------------------------------------------------
(* SimulatedAnnealingCore::AlignMacro *)

\* macro_id_list: the hard macros in index order, as a sequence
RECURSIVE MacroIdsFrom(_, _)
MacroIdsFrom(bs, i) ==
    IF i >= Size(bs) THEN <<>>
    ELSE (IF bs[i].num_macro > 0 THEN <<i>> ELSE <<>>) \o MacroIdsFrom(bs, i + 1)

MacroIdList(bs) == MacroIdsFrom(bs, 0)

\* threshold_H and threshold_V after the first loop
AlignThreshold(c, bs) ==
    [H |-> RFoldMin([k \in 0 .. Len(MacroIdList(bs)) - 1 |->
                        bs[MacroIdList(bs)[k + 1]].width], 0,
                    RDiv(c.outline_width, I(10))),
     V |-> RFoldMin([k \in 0 .. Len(MacroIdList(bs)) - 1 |->
                        bs[MacroIdList(bs)[k + 1]].height], 0,
                    RDiv(c.outline_height, I(10)))]

\* "Alignment macros to boundaries": the second loop, for one block
SnapToBoundary(c, b, th) ==
    LET ux == RAdd(b.x, b.width)
        uy == RAdd(b.y, b.height)
        nx == IF RLt(b.x, th.H) THEN Zero
              ELSE IF RLt(ux, c.outline_width) /\ RLt(RSub(c.outline_width, ux), th.H)
                   THEN RSub(c.outline_width, b.width)
                   ELSE b.x
        ny == IF RLt(b.y, th.V) THEN Zero
              ELSE IF RLt(uy, c.outline_height) /\ RLt(RSub(c.outline_height, uy), th.V)
                   THEN RSub(c.outline_height, b.height)
                   ELSE b.y
    IN  IF b.num_macro > 0 THEN [b EXCEPT !.x = nx, !.y = ny] ELSE b

\* a seed loop that pushes its seeds without marking them aligned
RECURSIVE AlignSeedUnmarked(_, _, _, _, _, _)
AlignSeedUnmarked(c, bs, ids, k, queue, dir) ==
    IF k > Len(ids) THEN [blocks |-> bs, queue |-> queue]
    ELSE LET i == ids[k]
             b == bs[i]
             atLow == IF dir \in {"left", "right"} THEN b.x = Zero ELSE b.y = Zero
             atHigh == IF dir \in {"left", "right"}
                       THEN RGe(RAdd(b.x, b.width), c.outline_width)
                       ELSE RGe(RAdd(b.y, b.height), c.outline_height)
             seed == IF dir \in {"left", "bottom"} THEN atLow ELSE atHigh
             other == IF dir \in {"left", "bottom"} THEN atHigh ELSE atLow
         IN  AlignSeedUnmarked(c, [bs EXCEPT ![i].flag = other /\ ~seed], ids, k + 1,
                               IF seed THEN Append(queue, i) ELSE queue, dir)

\* the loop before each queue loop: the seeds and the flags of one pass
\* (dir is "left", "right", "bottom" or "top"); only the left pass keeps
\* the flags it finds
RECURSIVE AlignSeed(_, _, _, _, _, _)
AlignSeed(c, bs, ids, k, queue, dir) ==
    IF k > Len(ids) THEN [blocks |-> bs, queue |-> queue]
    ELSE LET i == ids[k]
             b == bs[i]
             atLow == IF dir \in {"left", "right"} THEN b.x = Zero ELSE b.y = Zero
             atHigh == IF dir \in {"left", "right"}
                       THEN RGe(RAdd(b.x, b.width), c.outline_width)
                       ELSE RGe(RAdd(b.y, b.height), c.outline_height)
             seed == IF dir \in {"left", "bottom"} THEN atLow ELSE atHigh
             other == IF dir \in {"left", "bottom"} THEN atHigh ELSE atLow
             f0 == IF dir = "left" THEN b.flag ELSE FALSE
             f == IF seed \/ other THEN TRUE ELSE f0
         IN  AlignSeed(c, [bs EXCEPT ![i].flag = f], ids, k + 1,
                       IF seed THEN Append(queue, i) ELSE queue, dir)

\* the tentative coordinate of macro b against the source rectangle
\* src = [lx, ly, ux, uy]: <<moved, x, y>>
Tentative(src, b, th, dir) ==
    LET lx_b == b.x
        ly_b == b.y
        ux_b == RAdd(lx_b, b.width)
        uy_b == RAdd(ly_b, b.height)
        near(p, q, t) == RLe(RAbs(RSub(p, q)), t)
        y_near == near(src.ly, ly_b, th.V) \/ near(src.uy, uy_b, th.V)
                  \/ near(src.ly, uy_b, th.V) \/ near(src.uy, ly_b, th.V)
        x_near == near(src.lx, lx_b, th.H) \/ near(src.ux, ux_b, th.H)
                  \/ near(src.lx, ux_b, th.H) \/ near(src.ux, lx_b, th.H)
        stay == <<FALSE, lx_b, ly_b>>
    IN  CASE dir = "left" ->
               IF ~y_near THEN stay
               ELSE IF RGe(lx_b, src.lx) /\ RLe(lx_b, RAdd(src.lx, th.H))
                    THEN <<TRUE, src.lx, ly_b>>
               ELSE IF RGe(lx_b, src.ux) /\ RLe(lx_b, RAdd(src.ux, th.H))
                    THEN <<TRUE, src.ux, ly_b>>
               ELSE stay
          [] dir = "right" ->
               IF ~y_near THEN stay
               ELSE IF RLe(ux_b, src.ux) /\ RGe(ux_b, RSub(src.ux, th.H))
                    THEN <<TRUE, RSub(src.ux, RSub(ux_b, lx_b)), ly_b>>
               ELSE IF RLe(ux_b, src.lx) /\ RGe(ux_b, RSub(src.lx, th.H))
                    THEN <<TRUE, RSub(src.lx, RSub(ux_b, lx_b)), ly_b>>
               ELSE stay
          [] dir = "bottom" ->
               IF ~x_near THEN stay
               ELSE IF RGe(ly_b, src.ly) /\ RLe(ly_b, RAdd(src.ly, th.V))
                    THEN <<TRUE, lx_b, src.ly>>
               ELSE IF RGe(ly_b, src.uy) /\ RLe(ly_b, RAdd(src.uy, th.V))
                    THEN <<TRUE, lx_b, src.uy>>
               ELSE stay
          [] OTHER ->
               IF ~x_near THEN stay
               ELSE IF RLe(uy_b, src.uy) /\ RGe(uy_b, RSub(src.uy, th.V))
                    THEN <<TRUE, lx_b, RSub(src.uy, RSub(uy_b, ly_b))>>
               ELSE IF RLe(uy_b, src.ly) /\ RGe(uy_b, RSub(src.ly, th.V))
                    THEN <<TRUE, lx_b, RSub(src.ly, RSub(uy_b, ly_b))>>
               ELSE stay

\* the record of the conflicts of a run: any tells whether
\* CalculateOverlap() has put a macro back so far, back holds the macros
\* put back in the running pass, again tells whether a macro was moved
\* after it had been put back in the same pass, pushed lists for each pass
\* so far the macros in the order of their macro_queue.push
NoConflict == [any |-> FALSE, back |-> {}, again |-> FALSE, pushed |-> <<>>]

PutBack(conflict, i) == [conflict EXCEPT !.any = TRUE, !.back = @ \cup {i}]

MovedOn(conflict, i) ==
    [conflict EXCEPT !.again = @ \/ i \in conflict.back,
                     !.pushed[Len(conflict.pushed)] = Append(@, i)]

\* for (auto macro_id : macro_id_list) ... inside one queue iteration
RECURSIVE AlignVisit(_, _, _, _, _, _, _, _)
AlignVisit(bs, queue, src, ids, k, th, dir, conflict) ==
    IF k > Len(ids) THEN [blocks |-> bs, queue |-> queue, conflict |-> conflict]
    ELSE LET i == ids[k]
             Place(t) ==
                 LET Try(moved) ==
                         IF CalculateOverlap(moved)
                         THEN [blocks |-> bs, queue |-> queue,
                               conflict |-> PutBack(conflict, i)]
                         ELSE [blocks |-> [moved EXCEPT ![i].flag = TRUE],
                               queue |-> Append(queue, i),
                               conflict |-> MovedOn(conflict, i)]
                 IN  IF bs[i].flag \/ ~t[1]
                     THEN [blocks |-> bs, queue |-> queue, conflict |-> conflict]
                     ELSE Try([bs EXCEPT ![i].x = t[2], ![i].y = t[3]])
             Rest(v) == AlignVisit(v.blocks, v.queue, src, ids, k + 1, th, dir, v.conflict)
         IN  Rest(Place(Tentative(src, bs[i], th, dir)))

\* while (!macro_queue.empty()) ...
RECURSIVE AlignQueue(_, _, _, _, _, _)
AlignQueue(bs, queue, ids, th, dir, conflict) ==
    IF queue = <<>> THEN [blocks |-> bs, conflict |-> conflict]
    ELSE LET s == bs[Head(queue)]
             src == [lx |-> s.x, ly |-> s.y,
                     ux |-> RAdd(s.width, s.x), uy |-> RAdd(s.height, s.y)]
             Rest(v) == AlignQueue(v.blocks, v.queue, ids, th, dir, v.conflict)
         IN  Rest(AlignVisit(bs, Tail(queue), src, ids, 1, th, dir, conflict))

\* one directional pass
AlignPass(c, bs, th, dir, conflict) ==
    LET ids == MacroIdList(bs)
        s == AlignSeed(c, bs, ids, 1, <<>>, dir)
    IN  AlignQueue(s.blocks, s.queue, ids, th, dir,
                   [conflict EXCEPT !.back = {}, !.pushed = Append(@, s.queue)])

\* the passes dirs, one after the other
RECURSIVE AlignPasses(_, _, _, _, _)
AlignPasses(c, bs, th, dirs, conflict) ==
    IF dirs = <<>> THEN [blocks |-> bs, conflict |-> conflict]
    ELSE LET Rest(v) == AlignPasses(c, v.blocks, th, Tail(dirs), v.conflict)
         IN  Rest(AlignPass(c, bs, th, Head(dirs), conflict))

\* AlignMacro with the record of its conflicts: the blocks it leaves and
\* whether an alignment was put back because of overlap
AlignMacroRun(c, bs) ==
    LET th == AlignThreshold(c, bs)
    IN  AlignPasses(c, [i \in Idx(bs) |-> SnapToBoundary(c, bs[i], th)], th,
                    <<"left", "right", "bottom", "top">>, NoConflict)

\* SimulatedAnnealingCore::AlignMacro
AlignMacro(c, bs) == AlignMacroRun(c, bs).blocks

-----------------------------------------------------------------------------
(* SimulatedAnnealingCore::CalculateNotchPenalty *)

\* sort followed by the removal of repeated values: the grid lines
RECURSIVE SortedLines(_)
SortedLines(S) ==
    IF S = {} THEN <<>>
    ELSE LET m == CHOOSE v \in S : \A u \in S : RLe(v, u)
         IN  <<m>> \o SortedLines(S \ {m})

XLines(c, bs) ==
    Vec(SortedLines({Zero, c.outline_width}
        \cup {bs[i].x : i \in {k \in Idx(bs) : bs[k].num_macro > 0}}
        \cup {RAdd(bs[i].x, bs[i].width) : i \in {k \in Idx(bs) : bs[k].num_macro > 0}}))

YLines(c, bs) ==
    Vec(SortedLines({Zero, c.outline_height}
        \cup {bs[i].y : i \in {k \in Idx(bs) : bs[k].num_macro > 0}}
        \cup {RAdd(bs[i].y, bs[i].height) : i \in {k \in Idx(bs) : bs[k].num_macro > 0}}))

\* x_start / y_start of a macro edge lo on the grid lines g (0 if no cell)
CellStart(g, lo) ==
    LET S == {j \in 0 .. Size(g) - 2 : RLe(g[j], lo) /\ RLt(lo, g[j + 1])}
    IN  IF S = {} THEN 0 ELSE CHOOSE j \in S : TRUE

\* x_end / y_end of a macro edge hi on the grid lines g (0 if no cell)
CellEnd(g, hi) ==
    LET S == {j \in 0 .. Size(g) - 2 : RLt(g[j], hi) /\ RLe(hi, g[j + 1])}
    IN  IF S = {} THEN 0 ELSE CHOOSE j \in S : TRUE

\* the cells <<k, l>> with grid[k][l] == true
CoveredCells(bs, xg, yg) ==
    UNION {(CellStart(xg, bs[i].x) .. CellEnd(xg, RAdd(bs[i].x, bs[i].width)))
             \X (CellStart(yg, bs[i].y) .. CellEnd(yg, RAdd(bs[i].y, bs[i].height)))
           : i \in {k \in Idx(bs) : bs[k].num_macro > 0}}

\* the neighbour reads of cell <<i, j>> in the order the branch taken for
\* it evaluates them; any is TRUE for the corner branches (a || b)
NotchReads(i, j, num_x, num_y) ==
    IF i = 0 /\ j = 0 THEN [any |-> TRUE, need |-> 1, at |-> <<<<i + 1, j>>, <<i, j + 1>>>>]
    ELSE IF i = num_x - 1 /\ j = 0
        THEN [any |-> TRUE, need |-> 1, at |-> <<<<i - 1, j>>, <<i, j + 1>>>>]
    ELSE IF i = 0 /\ j = num_y - 1
        THEN [any |-> TRUE, need |-> 1, at |-> <<<<i + 1, j>>, <<i, j - 1>>>>]
    ELSE IF i = num_x - 1 /\ j = num_y - 1
        THEN [any |-> TRUE, need |-> 1, at |-> <<<<i - 1, j>>, <<i, j - 1>>>>]
    ELSE IF j = 0
        THEN [any |-> FALSE, need |-> 2, at |-> <<<<i - 1, j>>, <<i + 1, j>>, <<i, j + 1>>>>]
    ELSE IF j = num_y - 1
        THEN [any |-> FALSE, need |-> 2, at |-> <<<<i - 1, j>>, <<i + 1, j>>, <<i, j - 1>>>>]
    ELSE IF i = 0
        THEN [any |-> FALSE, need |-> 2, at |-> <<<<i, j - 1>>, <<i, j + 1>>, <<i + 1, j>>>>]
    ELSE IF i = num_x - 1
        THEN [any |-> FALSE, need |-> 2, at |-> <<<<i, j - 1>>, <<i, j + 1>>, <<i - 1, j>>>>]
    ELSE [any |-> FALSE, need |-> 3,
          at |-> <<<<i, j + 1>>, <<i, j - 1>>, <<i - 1, j>>, <<i + 1, j>>>>]

InGrid(cell, num_x, num_y) ==
    cell[1] \in 0 .. num_x - 1 /\ cell[2] \in 0 .. num_y - 1

\* the value a read of grid[cell] yields; oob is what a read outside the
\* vectors happens to yield
GridRead(cell, covered, num_x, num_y, oob) ==
    IF InGrid(cell, num_x, num_y) THEN cell \in covered ELSE oob

\* the reads the branch really performs: all of them for a sum, and for
\* a || b the second only when the first is false
ReadsDone(rd, covered, num_x, num_y, oob) ==
    IF rd.any /\ GridRead(rd.at[1], covered, num_x, num_y, oob)
    THEN {rd.at[1]}
    ELSE {rd.at[k] : k \in 1 .. Len(rd.at)}

IsNotch(cell, covered, num_x, num_y, oob) ==
    LET rd == NotchReads(cell[1], cell[2], num_x, num_y)
    IN  /\ cell \notin covered
        /\ Cardinality({k \in 1 .. Len(rd.at) :
                GridRead(rd.at[k], covered, num_x, num_y, oob)}) >= rd.need

\* the scan of the cells of a grid: notch_penalty_, and whether a read left
\* the vectors
NotchCells(c, oob, xg, yg, num_x, num_y, covered) ==
    LET cells == (0 .. num_x - 1) \X (0 .. num_y - 1)
        threshold_H == RMin(I(50), RDiv(c.outline_width, I(10)))
        threshold_V == RMin(I(50), RDiv(c.outline_height, I(10)))
        cw(cell) == RSub(xg[cell[1] + 1], xg[cell[1]])
        ch(cell) == RSub(yg[cell[2] + 1], yg[cell[2]])
        counted(cell) ==
            /\ IsNotch(cell, covered, num_x, num_y, oob)
            /\ (RLe(cw(cell), threshold_H) \/ RLe(ch(cell), threshold_V))
        penalty(cell) ==
            IF counted(cell)
            THEN RSqrt(RDiv(RMul(cw(cell), ch(cell)),
                            RMul(c.outline_width, c.outline_height)))
            ELSE Zero
    IN  [notch_penalty |->
            RSum([i \in 0 .. num_x - 1 |->
                    RSum([j \in 0 .. num_y - 1 |-> penalty(<<i, j>>)])]),
         out_of_range |->
            \E cell \in cells \ covered :
                \E r \in ReadsDone(NotchReads(cell[1], cell[2], num_x, num_y),
                                   covered, num_x, num_y, oob) :
                    ~InGrid(r, num_x, num_y)]

\* the grid of the lines xg and yg and the cells the blocks cover
NotchGrid(c, bs, oob, xg, yg) ==
    NotchCells(c, oob, xg, yg, Size(xg) - 1, Size(yg) - 1, CoveredCells(bs, xg, yg))

\* the grid scan: notch_penalty_, and whether a read left the vectors
NotchScan(c, bs, oob) == NotchGrid(c, bs, oob, XLines(c, bs), YLines(c, bs))

\* the two scans of the aligned blocks
NotchScans(c, aligned) ==
    LET Scanned(scan, scan_oob) ==
            [blocks |-> aligned,
             notch_penalty |-> scan.notch_penalty,
             notch_penalty_oob |-> scan_oob.notch_penalty,
             out_of_range |-> scan.out_of_range]
    IN  Scanned(NotchScan(c, aligned, FALSE), NotchScan(c, aligned, TRUE))

\* CalculateNotchPenalty: the blocks it leaves, whether it read outside
\* the grid, and notch_penalty_ when such reads yield false
\* (notch_penalty) and when they yield true (notch_penalty_oob)
CalculateNotchPenalty(c, bs, width, height) ==
    LET Over(p) ==
            [blocks |-> bs, notch_penalty |-> p, notch_penalty_oob |-> p,
             out_of_range |-> FALSE]
    IN  IF RGt(width, c.outline_width) \/ RGt(height, c.outline_height)
        THEN Over(RSqrt(RDiv(RMul(RMax(width, c.outline_width),
                                  RMax(height, c.outline_height)),
                             RMul(c.outline_width, c.outline_height))))
        ELSE NotchScans(c, AlignMacro(c, bs))

-----------------------------------------------------------------------------
(* Cost *)

\* SimulatedAnnealingCore::NormCost; the last two terms read the members
\* location_penalty_ and notch_penalty_ (m), not the arguments
NormCost(c, m, area, wirelength, outline_penalty, boundary_penalty, macro_blockage_penalty, location_penalty, notch_penalty) ==
    LET term(weight, value, norm) ==
            IF RGt(norm, Zero) THEN RDiv(RMul(weight, value), norm) ELSE Zero
    IN  RAdd(RDiv(RMul(c.alpha, area), c.norm_area),
        RAdd(term(c.beta, wirelength, c.norm_wirelength),
        RAdd(term(c.gamma, outline_penalty, c.norm_outline_penalty),
        RAdd(term(c.boundary_weight, boundary_penalty, c.norm_boundary_penalty),
        RAdd(term(c.macro_blockage_weight, macro_blockage_penalty,
                  c.norm_macro_blockage_penalty),
        RAdd(term(c.location_weight, m.location_penalty, c.norm_location_penalty),
             term(c.notch_weight, m.notch_penalty, c.norm_notch_penalty)))))))

\* the six Calculate* calls that follow every Perturb, in their order, on
\* the packed layout m: the blocks and the cost terms they leave (met, and
\* met_oob when reads outside the notch grid yield true)
Evaluate(c, bs, m) ==
    LET Terms(n, five) ==
            [blocks |-> n.blocks,
             out_of_range |-> n.out_of_range,
             met |-> [five EXCEPT !.notch_penalty = n.notch_penalty],
             met_oob |-> [five EXCEPT !.notch_penalty = n.notch_penalty_oob]]
    IN  Terms(CalculateNotchPenalty(c, bs, m.width, m.height),
              [m EXCEPT
                 !.wirelength = CalculateWirelength(c, bs),
                 !.outline_penalty = CalculateOutlinePenalty(c, m.width, m.height),
                 !.boundary_penalty = CalculateBoundaryPenalty(c, bs),
                 !.macro_blockage_penalty = CalculateMacroBlockagePenalty(c, bs),
                 !.location_penalty = CalculateLocationPenalty(c, bs)])

\* the cost of the stored terms, as FastSA calls NormCost
Cost(c, m) ==
    NormCost(c, m, m.area, m.wirelength, m.outline_penalty, m.boundary_penalty,
             m.macro_blockage_penalty, m.location_penalty, m.notch_penalty)

-----------------------------------------------------------------------------
(* Inputs: the clusters, nets, regions, locations and parameters handed to  *)
(* Floorplan and from there to every SimulatedAnnealingCore                 *)

\* the values a draw of distribution_(generator_) in [0, 1) takes where
\* the value itself, not only its bucket, is used
Draws == {Zero, R(1, 2)}

\* a soft cluster of area 4 with the ratio ranges [4, 4] and [1/4, 1]
ClusterSoft ==
    [area |-> I(4), num_macro |-> 0,
     aspect_ratio |-> Vec(<< <<I(4), I(4)>>, <<R(1, 4), I(1)>> >>)]

\* a hard macro with the two options 2 x 1 and 1 x 2
ClusterHard2 ==
    [area |-> I(2), num_macro |-> 1,
     aspect_ratio |-> Vec(<< <<I(2), I(1)>>, <<I(1), I(2)>> >>)]

\* a cluster of two macros with the single option 1 x 1
ClusterHard1 ==
    [area |-> I(1), num_macro |-> 2,
     aspect_ratio |-> Vec(<< <<I(1), I(1)>> >>)]

BaseCfg ==
    [outline_width |-> I(3), outline_height |-> I(3),
     clusters |-> Vec(<<ClusterHard2, ClusterSoft>>),
     nets |-> Vec(<< [blocks |-> Vec(<<0, 1>>), terminals |-> Vec(<<>>), weight |-> 1],
                     [blocks |-> Vec(<<1>>),
                      terminals |-> Vec(<< <<I(3), R(3, 2)>> >>), weight |-> 2] >>),
     regions |-> Vec(<< [lx |-> Zero, ly |-> Zero, ux |-> I(1), uy |-> I(1)] >>),
     locations |-> Vec(<< [block |-> 1, lx |-> I(2), ly |-> I(2),
                           ux |-> I(3), uy |-> I(3)] >>),
     alpha |-> I(1), beta |-> I(1), gamma |-> I(1), boundary_weight |-> I(1),
     macro_blockage_weight |-> I(1), location_weight |-> I(1), notch_weight |-> I(1),
     norm_area |-> I(9), norm_wirelength |-> I(3), norm_outline_penalty |-> I(1),
     norm_boundary_penalty |-> I(1), norm_macro_blockage_penalty |-> I(1),
     norm_location_penalty |-> Zero, norm_notch_penalty |-> I(1),
     init_T |-> I(1), cooling_rate |-> R(1, 2),
     resize_prob |-> R(1, 5), pos_swap_prob |-> R(2, 5), neg_swap_prob |-> R(3, 5),
     max_num_step |-> MaxNumStep, perturb_per_step |-> PerturbPerStep,
     shrink_factor |-> R(1, 2), shrink_freq |-> R(1, 2)]

\* the same run on two single-option macros: no block is resizable
CfgNoResize ==
    [BaseCfg EXCEPT !.clusters = Vec(<<ClusterHard1, ClusterHard1>>),
                    !.nets = Vec(<< [blocks |-> Vec(<<0, 1>>),
                                     terminals |-> Vec(<<>>), weight |-> 1] >>),
                    !.locations = Vec(<<>>)]

\* a macro with the single option 4 x 4, wider and taller than the outline
ClusterOversize ==
    [area |-> I(16), num_macro |-> 1,
     aspect_ratio |-> Vec(<< <<I(4), I(4)>> >>)]

\* the run on that macro alone
CfgOneMacro ==
    [BaseCfg EXCEPT !.clusters = Vec(<<ClusterOversize>>),
                    !.nets = Vec(<< [blocks |-> Vec(<<0>>),
                                     terminals |-> Vec(<< <<I(3), R(3, 2)>> >>),
                                     weight |-> 1] >>),
                    !.locations = Vec(<<>>)]

\* the run on the two-option macro alone
CfgOneBlock == [CfgOneMacro EXCEPT !.clusters = Vec(<<ClusterHard2>>)]

\* a schedule of two outer steps with the shrink allowed in the second one
\* (modulo_base = int(3 * 0.75) = 2), without the resize and double-swap moves
CfgShrinkStep ==
    [BaseCfg EXCEPT !.max_num_step = 3, !.shrink_freq = R(3, 4),
                    !.resize_prob = Zero, !.pos_swap_prob = R(1, 2),
                    !.neg_swap_prob = I(1)]

\* the run on the soft cluster alone: every layout is without hard macro
CfgSoftOnly == [CfgOneMacro EXCEPT !.clusters = Vec(<<ClusterSoft>>)]

\* a run of resize moves on the oversize macro and the soft cluster, no
\* layout of which is feasible, with the shrink frequency shrink_freq
CfgInfeasible(shrink_freq) ==
    [BaseCfg EXCEPT !.clusters = Vec(<<ClusterOversize, ClusterSoft>>),
                    !.shrink_freq = shrink_freq, !.resize_prob = I(1),
                    !.pos_swap_prob = I(1), !.neg_swap_prob = I(1)]

\* max_num_shrink = 1 and modulo_base = 1 (2/3); modulo_base = 0 (1/4)
Configs ==
    {BaseCfg, CfgNoResize, CfgOneMacro, CfgShrinkStep, CfgSoftOnly,
     CfgInfeasible(R(2, 3)), CfgInfeasible(R(1, 4))}

-----------------------------------------------------------------------------
(* State of one SimulatedAnnealingCore *)

N == Size(blocks)

ZeroMet ==
    [width |-> Zero, height |-> Zero, area |-> Zero, wirelength |-> Zero,
     outline_penalty |-> Zero, boundary_penalty |-> Zero,
     macro_blockage_penalty |-> Zero, location_penalty |-> Zero,
     notch_penalty |-> Zero]

Identity(n) == [i \in 0 .. n - 1 |-> i]

\* what Block::SetRandom can leave of the block built from cluster cl
BlockChoices(cl) ==
    {SetRandom(NewBlock(cl.area, cl.num_macro, cl.aspect_ratio), k, num) :
        k \in Idx(cl.aspect_ratio), num \in Draws}

\* blocks_ after the constructor
ConstructedBlocks(c) ==
    {bs \in [Idx(c.clusters) -> UNION {BlockChoices(c.clusters[i]) : i \in Idx(c.clusters)}] :
        \A i \in Idx(c.clusters) : bs[i] \in BlockChoices(c.clusters[i])}

\* history: sequences and block sizes of a state
Layout(bs, pos, neg) ==
    [pos |-> pos, neg |-> neg,
     size |-> [i \in Idx(bs) |-> <<bs[i].width, bs[i].height, bs[i].area>>]]

\* the workers of Floorplan: level and index in sa_vec
Workers == (0 .. NumLevel - 1) \X (0 .. NumWorker - 1)

\* the core Floorplan builds first and calls Initialize() on
Sampler == <<-1, 0>>

\* best_sa = nullptr
NoCore == <<-1, -1>>

\* a worker that does not exist yet
WorkerNone ==
    [state |-> "none", left |-> 0, cost |-> Zero, seed |-> 0, ptr |-> NoCore,
     blocks |-> <<>>, pos |-> <<>>, neg |-> <<>>, met |-> ZeroMet,
     start |-> <<>>, acc |-> {}]

\* Floorplan before its level loop: best_sa = nullptr, best_cost = FLT_MAX;
\* seed the master seed, samples the terms of the samples of Initialize(),
\* gen the state of the generator_ of every core,
\* blocks, pos_seq, neg_seq the locals of Floorplan, blocks_ptr the core
\* whose generator_ the Block objects of blocks point to
FpStart(phase) ==
    [phase |-> phase, i |-> 0, j |-> 0,
     th |-> [w \in Workers |-> WorkerNone],
     best_cost |-> FLT_MAX, best_sa |-> NoCore, read |-> {},
     seed |-> 0, seed_id |-> 0, samples |-> <<>>,
     gen |-> [k \in Workers \cup {Sampler} |-> 0],
     blocks |-> <<>>, pos_seq |-> <<>>, neg_seq |-> <<>>, blocks_ptr |-> NoCore]

\* no Floorplan around the core
FpIdle == FpStart("idle")

\* no filler placement under way
FillIdle ==
    [phase |-> "idle", site_width |-> 1, masters |-> <<>>, gap_fillers |-> <<>>,
     implant |-> "", gap |-> 0, cached |-> FALSE, fillers |-> <<>>, calls |-> 0]

\* SimulatedAnnealingCore::SimulatedAnnealingCore and Initialize(init_T, ...)
Init ==
    /\ cfg \in Configs
    /\ blocks \in ConstructedBlocks(cfg)
    /\ pos_seq = Identity(Size(cfg.clusters))
    /\ neg_seq = Identity(Size(cfg.clusters))
    /\ pre_pos_seq = pos_seq
    /\ pre_neg_seq = neg_seq
    /\ pre_blocks = blocks
    /\ met = ZeroMet
    /\ pre_met = ZeroMet
    /\ action_id = -1
    /\ block_id = -1
    /\ sa = [pre_cost |-> Zero, cost |-> Zero, best_cost |-> Zero, step |-> 0,
             T |-> Zero, num_restart |-> 0, num_shrink |-> 0, i |-> 0, index1 |-> 0]
    /\ pc = "constructed"
    /\ fp = FpIdle
    /\ fill = FillIdle
    /\ hist = [before |-> [layout |-> Layout(blocks, pos_seq, neg_seq), met |-> met],
               acc |-> Layout(blocks, pos_seq, neg_seq),
               last |-> "construct", steps |-> 0, ended |-> -1]

\* PackFloorplan() as a member: blocks_, width_, height_, area_
Packed(bs, pos, neg, m) ==
    LET Members(p) ==
            [blocks |-> p.blocks,
             met |-> [m EXCEPT !.width = p.width, !.height = p.height, !.area = p.area]]
    IN  Members(PackFloorplan(bs, pos, neg))

\* the body of SetSeq on the blocks bs and terms m of a core
SetSeqOn(c, bs, p, n, m) ==
    LET Terms(k) ==
            [blocks |-> k.blocks,
             met |-> [k.met EXCEPT
                        !.wirelength = CalculateWirelength(c, k.blocks),
                        !.outline_penalty = CalculateOutlinePenalty(c, k.met.width, k.met.height),
                        !.boundary_penalty = CalculateBoundaryPenalty(c, k.blocks),
                        !.macro_blockage_penalty = CalculateMacroBlockagePenalty(c, k.blocks)]]
    IN  Terms(Packed(bs, p, n, m))

\* SimulatedAnnealingCore::SetSeq
SetSeq(p, n) ==
    /\ pc = "constructed"
    /\ \E k \in {SetSeqOn(cfg, blocks, p, n, met)} :
           /\ pos_seq' = p
           /\ neg_seq' = n
           /\ pre_pos_seq' = p
           /\ pre_neg_seq' = n
           /\ blocks' = k.blocks
           /\ met' = k.met
           /\ hist' = [before |-> [layout |-> Layout(k.blocks, p, n), met |-> met'],
                       acc |-> Layout(k.blocks, p, n), last |-> "setseq",
                       steps |-> 0, ended |-> -1]
    /\ pc' = "start"
    /\ UNCHANGED <<fill, fp, cfg, pre_blocks, pre_met, action_id, block_id, sa>>

-----------------------------------------------------------------------------
(* SimulatedAnnealingCore::Perturb and Restore *)

\* whether a draw op in [0, 1) can fall in (lo, hi]
CanDraw(lo, hi) == RLt(RMax(lo, Zero), RMin(hi, I(1)))

\* the action_id_ values Perturb can choose under the thresholds
\* resize_prob_ <= pos_swap_prob_ <= neg_swap_prob_ of the constructor
MoveKinds(c) ==
    {k \in 0 .. 3 :
        \/ k = 0 /\ CanDraw(Zero, c.resize_prob)
        \/ k = 1 /\ CanDraw(c.resize_prob, c.pos_swap_prob)
        \/ k = 2 /\ CanDraw(c.pos_swap_prob, c.neg_swap_prob)
        \/ k = 3 /\ CanDraw(c.neg_swap_prob, I(1))}

Resizeable(bs) == {i \in Idx(bs) : IsResizeable(bs[i])}

DistinctPairs(n) == {d \in (0 .. n - 1) \X (0 .. n - 1) : d[1] # d[2]}

\* what the chosen move leaves, before the repack: every outcome of the
\* draws of Perturb for the move kind k (for k = 0: when the sampling loop
\* of Resize ends, with index1 a resizable block)
Moves(c, bs, pos, neg, k) ==
    IF k = 0 THEN
        UNION {{[action_id |-> 0, block_id |-> i, pos |-> pos, neg |-> neg,
                 blocks |-> Resize(bs, c.outline_width, c.outline_height,
                                   i, option, ar_index, num)] :
                    option \in 1 .. 5, ar_index \in Idx(bs[i].aspect_ratio),
                    num \in Draws} : i \in Resizeable(bs)}
    ELSE IF k = 1 THEN
        {[action_id |-> 1, block_id |-> block_id, blocks |-> bs, neg |-> neg,
          pos |-> SingleSwap(pos, d[1], d[2])] : d \in DistinctPairs(Size(bs))}
    ELSE IF k = 2 THEN
        {[action_id |-> 2, block_id |-> block_id, blocks |-> bs, pos |-> pos,
          neg |-> SingleSwap(neg, d[1], d[2])] : d \in DistinctPairs(Size(bs))}
    ELSE
        {[action_id |-> 3, block_id |-> block_id, blocks |-> bs,
          pos |-> DoubleSwap(pos, neg, d[1], d[2]).pos,
          neg |-> DoubleSwap(pos, neg, d[1], d[2]).neg] : d \in DistinctPairs(Size(bs))}

\* the sequences put back, the resized block left as it is
RestoreSeqOnly(bs, pos, neg) ==
    [blocks |-> bs,
     pos |-> IF action_id \in {0, 2} THEN pos ELSE pre_pos_seq,
     neg |-> IF action_id \in {0, 1} THEN neg ELSE pre_neg_seq]

\* SimulatedAnnealingCore::Restore: blocks_, pos_seq_, neg_seq_
Restore(bs, pos, neg) ==
    [blocks |-> IF action_id = 0
                THEN [bs EXCEPT ![block_id] = pre_blocks[block_id]] ELSE bs,
     pos |-> IF action_id \in {0, 2} THEN pos ELSE pre_pos_seq,
     neg |-> IF action_id \in {0, 1} THEN neg ELSE pre_neg_seq]

-----------------------------------------------------------------------------
(* SimulatedAnnealingCore::FastSA as a state machine.                       *)
(* pc: "start" (entry), "inner" (before Perturb of an inner iteration),     *)
(* "resize_loop" (inside the sampling loop of Resize), "decide" (before the *)
(* acceptance test), "end_step" (after the inner loop), "finish" (after the *)
(* while loop), "done" (returned), "crashed" (undefined behaviour ended the *)
(* run), "aligned" (after the AlignMacro of Floorplan).                     *)

max_num_restart == 2

\* int(x) of a non-negative float
IntOf(a) == a[1] \div a[2]

max_num_shrink(c) == IntOf(RDiv(I(1), c.shrink_freq))
\* a shrink trigger that fires at every outer step
EveryStep(c) == 1

modulo_base(c) == IntOf(RMul(I(c.max_num_step), c.shrink_freq))

\* the while test of FastSA
LoopPc(step) == IF step < cfg.max_num_step THEN "inner" ELSE "finish"

\* the entry of FastSA, up to the while loop
FastSAEnter ==
    /\ pc = "start"
    /\ sa' = [pre_cost |-> Cost(cfg, met), cost |-> Cost(cfg, met),
              best_cost |-> Cost(cfg, met), step |-> 1, T |-> cfg.init_T,
              num_restart |-> 0, num_shrink |-> 0, i |-> 0, index1 |-> 0]
    /\ pc' = LoopPc(1)
    /\ hist' = [hist EXCEPT !.last = "enter", !.steps = 0]
    /\ UNCHANGED <<fill, fp, cfg, blocks, pos_seq, neg_seq, met, pre_blocks, pre_pos_seq,
                   pre_neg_seq, pre_met, action_id, block_id>>

\* the state after the six Calculate* calls on the packed or kept layout;
\* a read outside the notch grid yields either value or ends the run
Evaluated(bs, m, next) ==
    \E e \in {Evaluate(cfg, bs, m)} :
        /\ blocks' = e.blocks
        /\ \/ /\ met' = e.met
              /\ pc' = next
           \/ /\ e.out_of_range
              /\ met' = e.met
              /\ pc' = "crashed"
           \/ /\ e.out_of_range
              /\ met' = e.met_oob
              /\ pc' = next

\* Perturb() with its move completed, and the cost evaluation after it
Perturb ==
    /\ pc = "inner"
    /\ IF N = 1
       THEN /\ Evaluated(blocks, met, "decide")
            /\ UNCHANGED <<pos_seq, neg_seq, pre_blocks, pre_pos_seq, pre_neg_seq,
                           pre_met, action_id, block_id>>
       ELSE \E k \in MoveKinds(cfg) : \E mv \in Moves(cfg, blocks, pos_seq, neg_seq, k) :
                \E p \in {Packed(mv.blocks, mv.pos, mv.neg, met)} :
                    /\ pre_pos_seq' = pos_seq
                    /\ pre_neg_seq' = neg_seq
                    /\ pre_met' = met
                    /\ pre_blocks' = IF k = 0 THEN blocks ELSE pre_blocks
                    /\ action_id' = mv.action_id
                    /\ block_id' = mv.block_id
                    /\ pos_seq' = mv.pos
                    /\ neg_seq' = mv.neg
                    /\ Evaluated(p.blocks, p.met, "decide")
    /\ sa' = [sa EXCEPT !.cost = Cost(cfg, met')]
    /\ hist' = [hist EXCEPT
                  !.before = [layout |-> Layout(blocks, pos_seq, neg_seq), met |-> met],
                  !.last = "perturb"]
    /\ UNCHANGED <<fill, fp, cfg>>

\* Perturb() drawing the resize move while no block is resizable: control
\* enters the sampling loop of Resize
PerturbResizeLoop ==
    /\ pc = "inner"
    /\ N # 1
    /\ 0 \in MoveKinds(cfg)
    /\ Resizeable(blocks) = {}
    /\ pre_pos_seq' = pos_seq
    /\ pre_neg_seq' = neg_seq
    /\ pre_met' = met
    /\ pre_blocks' = blocks
    /\ action_id' = 0
    /\ \E index1 \in Idx(blocks) : sa' = [sa EXCEPT !.index1 = index1]
    /\ pc' = "resize_loop"
    /\ hist' = [hist EXCEPT
                  !.before = [layout |-> Layout(blocks, pos_seq, neg_seq), met |-> met],
                  !.last = "perturb"]
    /\ UNCHANGED <<fill, fp, cfg, blocks, pos_seq, neg_seq, met, block_id>>

\* one iteration of while (blocks_[index1].IsResizeable() == false)
ResizeRetry ==
    /\ pc = "resize_loop"
    /\ IsResizeable(blocks[sa.index1]) = FALSE
    /\ \E index1 \in Idx(blocks) : sa' = [sa EXCEPT !.index1 = index1]
    /\ UNCHANGED <<fill, fp, cfg, blocks, pos_seq, neg_seq, met, pre_blocks, pre_pos_seq,
                   pre_neg_seq, pre_met, action_id, block_id, pc, hist>>

\* the position after an inner iteration
InnerPc(i) == IF i < cfg.perturb_per_step THEN "inner" ELSE "end_step"

\* the acceptance test taken (delta_cost < 0 || num < prob): certain for
\* delta_cost <= 0, possible for delta_cost > 0 while T > 0
Accept ==
    /\ pc = "decide"
    /\ LET delta_cost == RSub(sa.cost, sa.pre_cost)
       IN  RLe(delta_cost, Zero) \/ RGt(sa.T, Zero)
    /\ IF RLt(sa.cost, sa.best_cost) /\ sa.num_shrink <= max_num_shrink(cfg)
          /\ modulo_base(cfg) = 0
       THEN \* step % 0
            /\ pc' = "crashed"
            /\ sa' = [sa EXCEPT !.pre_cost = sa.cost, !.best_cost = sa.cost]
            /\ hist' = [hist EXCEPT !.acc = Layout(blocks, pos_seq, neg_seq),
                                    !.last = "accept"]
            /\ UNCHANGED <<blocks, met>>
       ELSE IF /\ RLt(sa.cost, sa.best_cost)
               /\ sa.num_shrink <= max_num_shrink(cfg)
               /\ sa.step % modulo_base(cfg) = 0
               /\ ~IsFeasible(cfg, met.width, met.height)
       THEN LET p == Packed(ShrinkBlocks(blocks, cfg.shrink_factor),
                            pos_seq, neg_seq, met)
            IN  /\ Evaluated(p.blocks, p.met, InnerPc(sa.i + 1))
                /\ sa' = [sa EXCEPT !.pre_cost = Cost(cfg, met'),
                                    !.best_cost = Cost(cfg, met'),
                                    !.num_shrink = sa.num_shrink + 1,
                                    !.i = sa.i + 1]
                /\ hist' = [hist EXCEPT !.acc = Layout(blocks', pos_seq, neg_seq),
                                        !.last = "shrink"]
       ELSE /\ pc' = InnerPc(sa.i + 1)
            /\ sa' = [sa EXCEPT !.pre_cost = sa.cost,
                                !.best_cost = RMin(sa.cost, sa.best_cost),
                                !.i = sa.i + 1]
            /\ hist' = [hist EXCEPT !.acc = Layout(blocks, pos_seq, neg_seq),
                                    !.last = "accept"]
            /\ UNCHANGED <<blocks, met>>
    /\ UNCHANGED <<fill, fp, cfg, pos_seq, neg_seq, pre_blocks, pre_pos_seq, pre_neg_seq,
                   pre_met, action_id, block_id>>

\* the acceptance test failed and the state is left as perturbed
RejectNoRestore ==
    /\ pc = "decide"
    /\ RGt(RSub(sa.cost, sa.pre_cost), Zero)
    /\ sa' = [sa EXCEPT !.i = sa.i + 1]
    /\ pc' = InnerPc(sa.i + 1)
    /\ hist' = [hist EXCEPT !.last = "restore"]
    /\ UNCHANGED <<fill, fp, cfg, blocks, pos_seq, neg_seq, met, pre_blocks, pre_pos_seq,
                   pre_neg_seq, pre_met, action_id, block_id>>

\* the acceptance test failed: Restore()
Reject ==
    /\ pc = "decide"
    /\ RGt(RSub(sa.cost, sa.pre_cost), Zero)
    /\ LET r == Restore(blocks, pos_seq, neg_seq)
       IN  /\ blocks' = r.blocks
           /\ pos_seq' = r.pos
           /\ neg_seq' = r.neg
    /\ met' = pre_met
    /\ sa' = [sa EXCEPT !.i = sa.i + 1]
    /\ pc' = InnerPc(sa.i + 1)
    /\ hist' = [hist EXCEPT !.last = "restore"]
    /\ UNCHANGED <<fill, fp, cfg, pre_blocks, pre_pos_seq, pre_neg_seq, pre_met,
                   action_id, block_id>>

\* the end of an outer step without the PackFloorplan of the final step
EndStepNoPack ==
    /\ pc = "end_step"
    /\ LET step == sa.step + 1
           T == RMul(sa.T, cfg.cooling_rate)
       IN  IF step = cfg.max_num_step
           THEN LET p == [blocks |-> blocks, met |-> met]
                    restart == /\ ~IsFeasible(cfg, p.met.width, p.met.height)
                               /\ sa.num_restart < max_num_restart
                IN  /\ Evaluated(p.blocks, p.met,
                                 IF restart THEN LoopPc(1) ELSE LoopPc(step))
                    /\ sa' = IF restart
                             THEN [sa EXCEPT !.step = 1, !.T = cfg.init_T,
                                             !.num_restart = sa.num_restart + 1,
                                             !.i = 0]
                             ELSE [sa EXCEPT !.step = step, !.T = T, !.i = 0]
                    /\ hist' = [hist EXCEPT !.last = IF restart THEN "restart"
                                                     ELSE "final_step",
                                            !.steps = IF restart THEN 0
                                                      ELSE hist.steps + 1,
                                            !.ended = hist.steps + 1]
           ELSE /\ sa' = [sa EXCEPT !.step = step, !.T = T, !.i = 0]
                /\ pc' = LoopPc(step)
                /\ hist' = [hist EXCEPT !.last = "end_step", !.steps = hist.steps + 1]
                /\ UNCHANGED <<blocks, met>>
    /\ UNCHANGED <<fill, fp, cfg, pos_seq, neg_seq, pre_blocks, pre_pos_seq, pre_neg_seq,
                   pre_met, action_id, block_id>>

\* the end of an outer step: step++, cooling, and at the final step the
\* repack, the evaluation and the restart test
EndStep ==
    /\ pc = "end_step"
    /\ LET step == sa.step + 1
           T == RMul(sa.T, cfg.cooling_rate)
       IN  IF step = cfg.max_num_step
           THEN LET p == Packed(blocks, pos_seq, neg_seq, met)
                    restart == /\ ~IsFeasible(cfg, p.met.width, p.met.height)
                               /\ sa.num_restart < max_num_restart
                IN  /\ Evaluated(p.blocks, p.met,
                                 IF restart THEN LoopPc(1) ELSE LoopPc(step))
                    /\ sa' = IF restart
                             THEN [sa EXCEPT !.step = 1, !.T = cfg.init_T,
                                             !.num_restart = sa.num_restart + 1,
                                             !.i = 0]
                             ELSE [sa EXCEPT !.step = step, !.T = T, !.i = 0]
                    /\ hist' = [hist EXCEPT !.last = IF restart THEN "restart"
                                                     ELSE "final_step",
                                            !.steps = IF restart THEN 0
                                                      ELSE hist.steps + 1,
                                            !.ended = hist.steps + 1]
           ELSE /\ sa' = [sa EXCEPT !.step = step, !.T = T, !.i = 0]
                /\ pc' = LoopPc(step)
                /\ hist' = [hist EXCEPT !.last = "end_step", !.steps = hist.steps + 1]
                /\ UNCHANGED <<blocks, met>>
    /\ UNCHANGED <<fill, fp, cfg, pos_seq, neg_seq, pre_blocks, pre_pos_seq, pre_neg_seq,
                   pre_met, action_id, block_id>>

\* after the while loop: the six Calculate* calls, then return
Finish ==
    /\ pc = "finish"
    /\ Evaluated(blocks, met, "done")
    /\ hist' = [hist EXCEPT !.last = "finish"]
    /\ UNCHANGED <<fill, fp, cfg, pos_seq, neg_seq, pre_blocks, pre_pos_seq, pre_neg_seq,
                   pre_met, action_id, block_id, sa>>

\* Floorplan: best_sa->AlignMacro() on the core that won the last level
AlignFinal ==
    /\ pc = "done"
    /\ blocks' = AlignMacro(cfg, blocks)
    /\ pc' = "aligned"
    /\ hist' = [hist EXCEPT !.last = "align"]
    /\ UNCHANGED <<fill, fp, cfg, pos_seq, neg_seq, met, pre_blocks, pre_pos_seq,
                   pre_neg_seq, pre_met, action_id, block_id, sa>>

Next ==
    \/ \E p, n \in Perms(N) : SetSeq(p, n)
    \/ FastSAEnter
    \/ Perturb
    \/ PerturbResizeLoop
    \/ ResizeRetry
    \/ Accept
    \/ Reject
    \/ EndStep
    \/ Finish
    \/ AlignFinal

Spec == Init /\ [][Next]_vars

-----------------------------------------------------------------------------
(* PackFloorplan on its own: every sequence pair over 1 .. MaxPackBlocks    *)
(* blocks of every width and height in 0 .. MaxDim.                         *)

\* a block of width w and height h (a macro with that single option)
SizedBlock(w, h) ==
    ResizeHardBlock(NewBlock(I(w * h), 1, Vec(<< <<I(w), I(h)>> >>)), 0)

InitPack ==
    /\ cfg = BaseCfg
    /\ \E n \in 1 .. MaxPackBlocks :
          /\ blocks \in [0 .. n - 1 -> {SizedBlock(w, h) : w, h \in 0 .. MaxDim}]
          /\ pos_seq \in Perms(n)
          /\ neg_seq \in Perms(n)
    /\ pre_pos_seq = pos_seq
    /\ pre_neg_seq = neg_seq
    /\ pre_blocks = blocks
    /\ met = ZeroMet
    /\ pre_met = ZeroMet
    /\ action_id = -1
    /\ block_id = -1
    /\ sa = [pre_cost |-> Zero, cost |-> Zero, best_cost |-> Zero, step |-> 0,
             T |-> Zero, num_restart |-> 0, num_shrink |-> 0, i |-> 0, index1 |-> 0]
    /\ pc = "pack_input"
    /\ fp = FpIdle
    /\ fill = FillIdle
    /\ hist = [before |-> [layout |-> Layout(blocks, pos_seq, neg_seq), met |-> met],
               acc |-> Layout(blocks, pos_seq, neg_seq),
               last |-> "construct", steps |-> 0, ended |-> -1]

PackStep ==
    /\ pc = "pack_input"
    /\ \E p \in {Packed(blocks, pos_seq, neg_seq, met)} :
           /\ blocks' = p.blocks
           /\ met' = p.met
    /\ pc' = "packed"
    /\ hist' = [hist EXCEPT !.last = "pack"]
    /\ UNCHANGED <<fill, fp, cfg, pos_seq, neg_seq, pre_blocks, pre_pos_seq, pre_neg_seq,
                   pre_met, action_id, block_id, sa>>

SpecPack == InitPack /\ [][PackStep]_vars

-----------------------------------------------------------------------------
(* The swap moves of Perturb() applied to any sequence pair of up to        *)
(* MaxPackBlocks unit blocks                                                *)

InitSwap ==
    /\ cfg = BaseCfg
    /\ \E n \in 1 .. MaxPackBlocks :
          /\ blocks = [i \in 0 .. n - 1 |-> SizedBlock(1, 1)]
          /\ pos_seq \in Perms(n)
          /\ neg_seq \in Perms(n)
    /\ pre_pos_seq = pos_seq
    /\ pre_neg_seq = neg_seq
    /\ pre_blocks = blocks
    /\ met = ZeroMet
    /\ pre_met = ZeroMet
    /\ action_id = -1
    /\ block_id = -1
    /\ sa = [pre_cost |-> Zero, cost |-> Zero, best_cost |-> Zero, step |-> 0,
             T |-> Zero, num_restart |-> 0, num_shrink |-> 0, i |-> 0, index1 |-> 0]
    /\ pc = "swap_input"
    /\ fp = FpIdle
    /\ fill = FillIdle
    /\ hist = [before |-> [layout |-> Layout(blocks, pos_seq, neg_seq), met |-> met],
               acc |-> Layout(blocks, pos_seq, neg_seq),
               last |-> "construct", steps |-> 0, ended |-> -1]

\* Perturb() taking one of the three swap moves, with its PackFloorplan
SwapStep ==
    /\ pc = "swap_input"
    /\ N # 1
    /\ \E k \in 1 .. 3 : \E mv \in Moves(cfg, blocks, pos_seq, neg_seq, k) :
           \E p \in {Packed(mv.blocks, mv.pos, mv.neg, met)} :
               /\ pre_pos_seq' = pos_seq
               /\ pre_neg_seq' = neg_seq
               /\ pre_met' = met
               /\ action_id' = mv.action_id
               /\ pos_seq' = mv.pos
               /\ neg_seq' = mv.neg
               /\ blocks' = p.blocks
               /\ met' = p.met
    /\ pc' = "swapped"
    /\ hist' = [hist EXCEPT !.last = "perturb"]
    /\ UNCHANGED <<fill, fp, cfg, pre_blocks, block_id, sa>>

SpecSwap == InitSwap /\ [][SwapStep]_vars

-----------------------------------------------------------------------------
(* Floorplan: the level loop and its worker threads.  A worker is the       *)
(* thread(Run, sa) of one core; its FastSA is WorkerSteps steps and a       *)
(* returned cost.                                                           *)

\* std::mt19937 as a generator of full period on 0 .. 7: the state after
\* one draw
MtNext(s) == (5 * s + 3) % 8

\* distribution_(generator_) drawn at state s: a value in [0, 1)
Uniform(s) == R(2 * s + 1, 16)

\* (int) floor(distribution_(generator_) * size) drawn at state s
DrawIndex(s, size) == IntOf(RMul(Uniform(s), I(size)))

\* num_seed of Floorplan
num_seed == NumLevel * NumWorker + 10

\* seed_list of Floorplan: num_seed outputs of rand_generator(seed)
RECURSIVE MtOut(_, _)
MtOut(s, i) == IF i = 0 THEN MtNext(s) ELSE MtNext(MtOut(s, i - 1))

seed_list(seed) == [i \in 0 .. num_seed - 1 |-> MtOut(seed % 8, i)]

\* every core drawing from one generator, that of the first core
DrawGlobal(G, k) == [s |-> G[Sampler], G |-> [G EXCEPT ![Sampler] = MtNext(G[Sampler])]]

\* a draw of the generator of core k in the store G: the state drawn at
\* and the store after it
Draw(G, k) == [s |-> G[k], G |-> [G EXCEPT ![k] = MtNext(G[k])]]

\* Block::SetRandom on bs[i], bs[i + 1], ... through the generator of core
\* k: the loop of the constructor
RECURSIVE SetRandomFrom(_, _, _, _)
SetRandomFrom(bs, i, G, k) ==
    IF i >= Size(bs) THEN [blocks |-> bs, G |-> G]
    ELSE LET b == bs[i]
             d1 == Draw(G, k)
             index1 == DrawIndex(d1.s, Size(b.aspect_ratio))
             two == b.num_macro = 0 /\ b.aspect_ratio[index1][1] # b.aspect_ratio[index1][2]
             d2 == IF two THEN Draw(d1.G, k) ELSE d1
         IN  SetRandomFrom([bs EXCEPT ![i] = SetRandom(b, index1, Uniform(d2.s))],
                           i + 1, d2.G, k)

\* the sampling loop of Resize on the generator of core k
RECURSIVE ResizeIndex(_, _, _)
ResizeIndex(bs, G, k) ==
    LET d == Draw(G, k)
        index1 == DrawIndex(d.s, Size(bs))
    IN  IF IsResizeable(bs[index1]) THEN [index1 |-> index1, G |-> d.G]
        ELSE ResizeIndex(bs, d.G, k)

\* while (index1 == index2) of SingleSwap and DoubleSwap
RECURSIVE SwapIndex2(_, _, _, _)
SwapIndex2(n, index1, G, k) ==
    LET d == Draw(G, k)
        index2 == DrawIndex(d.s, n)
    IN  IF index1 # index2 THEN [index2 |-> index2, G |-> d.G]
        ELSE SwapIndex2(n, index1, d.G, k)

\* the bucket of the draw option in Resize
OptionOf(u) ==
    IF RLe(u, R(1, 5)) THEN 1 ELSE IF RLe(u, R(2, 5)) THEN 2
    ELSE IF RLe(u, R(3, 5)) THEN 3 ELSE IF RLe(u, R(4, 5)) THEN 4 ELSE 5

\* Resize() once index1 and the option are drawn: the draws of the aspect ratio
ResizeOption(c, ptr, bs, index1, b, dopt, option) ==
    LET drawn == b.num_macro > 0 \/ option = 1
        d1 == IF drawn THEN Draw(dopt.G, ptr) ELSE dopt
        ar_index == IF drawn THEN DrawIndex(d1.s, Size(b.aspect_ratio)) ELSE 0
        two == /\ b.num_macro = 0 /\ option = 1
               /\ b.aspect_ratio[ar_index][1] # b.aspect_ratio[ar_index][2]
        d2 == IF two THEN Draw(d1.G, ptr) ELSE d1
    IN  [blocks |-> Resize(bs, c.outline_width, c.outline_height, index1,
                           option, ar_index, Uniform(d2.s)),
         G |-> d2.G]

\* Resize() once index1 is drawn (r): the draw of the option
ResizeAt(c, k, ptr, bs, r) ==
    LET b == bs[r.index1]
        dopt == IF b.num_macro > 0 THEN [s |-> 0, G |-> r.G] ELSE Draw(r.G, k)
    IN  ResizeOption(c, ptr, bs, r.index1, b, dopt, OptionOf(Uniform(dopt.s)))

\* Resize() of core k on its blocks bs, whose Block objects draw from the
\* generator of core ptr
ResizeSeeded(c, k, ptr, bs, G) == ResizeAt(c, k, ptr, bs, ResizeIndex(bs, G, k))

\* Perturb() of core k with the draws of the generators in G: the core
\* (blocks, pos, neg, met) and the store it leaves
PerturbSeeded(c, k, ptr, core, G) ==
    IF Size(core.blocks) = 1 THEN [core |-> core, G |-> G]
    ELSE LET dop == Draw(G, k)
             op == Uniform(dop.s)
             n == Size(core.blocks)
             d1 == Draw(dop.G, k)
             index1 == DrawIndex(d1.s, n)
             kind == IF RLe(op, c.resize_prob) THEN 0
                     ELSE IF RLe(op, c.pos_swap_prob) THEN 1
                     ELSE IF RLe(op, c.neg_swap_prob) THEN 2 ELSE 3
             Moved(bs, pos, neg, G2) == [blocks |-> bs, pos |-> pos, neg |-> neg, G |-> G2]
             Resized(rs) == Moved(rs.blocks, core.pos, core.neg, rs.G)
             Swapped(sw) ==
                 Moved(core.blocks,
                       IF kind = 1 THEN SingleSwap(core.pos, index1, sw.index2)
                       ELSE IF kind = 3
                       THEN DoubleSwap(core.pos, core.neg, index1, sw.index2).pos
                       ELSE core.pos,
                       IF kind = 2 THEN SingleSwap(core.neg, index1, sw.index2)
                       ELSE IF kind = 3
                       THEN DoubleSwap(core.pos, core.neg, index1, sw.index2).neg
                       ELSE core.neg,
                       sw.G)
             pk(mv, q) == [core |-> [blocks |-> q.blocks, pos |-> mv.pos,
                                     neg |-> mv.neg, met |-> q.met],
                           G |-> mv.G]
             Repacked(mv) == pk(mv, Packed(mv.blocks, mv.pos, mv.neg, core.met))
         IN  Repacked(IF kind = 0
                      THEN Resized(ResizeSeeded(c, k, ptr, core.blocks, dop.G))
                      ELSE Swapped(SwapIndex2(n, index1, d1.G, k)))

\* the six Calculate* calls on a core (blocks, pos, neg, met)
Calculated(c, core) ==
    LET Put(e) == [core EXCEPT !.blocks = e.blocks, !.met = e.met]
    IN  Put(Evaluate(c, core.blocks, core.met))

\* the six Calculate* calls on the core a Perturb() has left
CalculatedAfter(c, r) == [core |-> Calculated(c, r.core), G |-> r.G]

\* one iteration of the loops of Initialize() and FastSA on core k:
\* Perturb() and the six Calculate* calls
PerturbStep(c, k, ptr, core, G) == CalculatedAfter(c, PerturbSeeded(c, k, ptr, core, G))

\* the sampling loop of Initialize() from its iteration i on: the core and
\* the generators it leaves and the terms pushed on the seven lists
RECURSIVE SampleFrom(_, _, _, _, _)
SampleFrom(c, k, core, G, i) ==
    IF i >= c.perturb_per_step THEN [core |-> core, G |-> G, samples |-> <<>>]
    ELSE LET Push(r, t) == [t EXCEPT !.samples = <<r.core.met>> \o t.samples]
             Rest(r) == Push(r, SampleFrom(c, k, r.core, r.G, i + 1))
         IN  Rest(PerturbStep(c, k, k, core, G))

\* the terms NormCost weighs
NormTerms ==
    {"area", "wirelength", "outline_penalty", "boundary_penalty",
     "macro_blockage_penalty", "location_penalty", "notch_penalty"}

\* norm_X_ after Initialize(): the sum of the term over the samples divided
\* by perturb_per_step_
NormOf(c, samples, t) ==
    RDiv(RSum([i \in 0 .. Len(samples) - 1 |-> samples[i + 1][t]]),
         I(c.perturb_per_step))

\* the seven normalization constants of Initialize(), as the workers get
\* them through Initialize(init_T, norm_area, ...)
Initialized(c, samples) ==
    [c EXCEPT !.norm_area = NormOf(c, samples, "area"),
              !.norm_wirelength = NormOf(c, samples, "wirelength"),
              !.norm_outline_penalty = NormOf(c, samples, "outline_penalty"),
              !.norm_boundary_penalty = NormOf(c, samples, "boundary_penalty"),
              !.norm_macro_blockage_penalty =
                  NormOf(c, samples, "macro_blockage_penalty"),
              !.norm_location_penalty = NormOf(c, samples, "location_penalty"),
              !.norm_notch_penalty = NormOf(c, samples, "notch_penalty")]

\* generator_ = &generator of Block::SetRandom in the constructor of core
\* k: the core whose generator the Block objects of blocks_ point to, which
\* was from in the vector copied (NoCore in the blocks built from clusters)
BlocksPtrKept(k, from) == IF from = NoCore THEN k ELSE from

BlocksPtr(k, from) == k

\* the constructor of core k on the vector bs with the seed seed: blocks_
\* copied and SetRandom on every block, the sequences in index order
Constructed(k, seed, bs, from, G) ==
    LET Put(r, ptr) ==
            [core |-> [blocks |-> r.blocks, pos |-> Identity(Size(bs)),
                       neg |-> Identity(Size(bs)), met |-> ZeroMet],
             ptr |-> ptr, G |-> r.G]
    IN  Put(SetRandomFrom(bs, 0, [G EXCEPT ![k] = seed], BlocksPtr(k, from)),
            BlocksPtr(k, from))

\* the blocks Floorplan builds from the clusters
ClusterBlocks(c) ==
    [i \in Idx(c.clusters) |->
        NewBlock(c.clusters[i].area, c.clusters[i].num_macro,
                 c.clusters[i].aspect_ratio)]

\* the first core of Floorplan after its constructor and Initialize(), for
\* the master seed seed
Sampled(c, seed) ==
    LET k == Constructed(Sampler, seed_list(seed)[0], ClusterBlocks(c), NoCore,
                         FpIdle.gen)
    IN  SampleFrom(c, Sampler, k.core, k.G, 0)

InitFloorplan ==
    /\ \E c \in {BaseCfg, CfgOneBlock}, seed \in 0 .. MaxSeed :
       \E s \in {Sampled(c, seed)} :
          /\ cfg = Initialized(c, s.samples)
          /\ blocks = s.core.blocks
          /\ pos_seq = s.core.pos
          /\ neg_seq = s.core.neg
          /\ met = s.core.met
          /\ fp = [FpStart("spawn") EXCEPT
                     !.seed = seed, !.seed_id = 1, !.gen = s.G,
                     !.samples = s.samples,
                     !.blocks = s.core.blocks, !.pos_seq = s.core.pos,
                     !.neg_seq = s.core.neg, !.blocks_ptr = Sampler]
    /\ pre_pos_seq = pos_seq
    /\ pre_neg_seq = neg_seq
    /\ pre_blocks = blocks
    /\ pre_met = ZeroMet
    /\ action_id = -1
    /\ block_id = -1
    /\ sa = [pre_cost |-> Zero, cost |-> Zero, best_cost |-> Zero, step |-> 0,
             T |-> Zero, num_restart |-> 0, num_shrink |-> 0, i |-> 0, index1 |-> 0]
    /\ pc = "floorplan"
    /\ fill = FillIdle
    /\ hist = [before |-> [layout |-> Layout(blocks, pos_seq, neg_seq), met |-> met],
               acc |-> Layout(blocks, pos_seq, neg_seq),
               last |-> "construct", steps |-> 0, ended |-> -1]

CoreUnchanged ==
    UNCHANGED <<fill, cfg, blocks, pos_seq, neg_seq, met, pre_blocks, pre_pos_seq,
                pre_neg_seq, pre_met, action_id, block_id, sa, pc, hist>>

\* the position after iteration j of a loop over the workers
AfterWorker(j, phase, next) ==
    IF j + 1 < NumWorker THEN [phase |-> phase, j |-> j + 1]
    ELSE [phase |-> next, j |-> 0]

\* the core (blocks, pos, neg, met) of worker w
CoreOf(w) ==
    [blocks |-> fp.th[w].blocks, pos |-> fp.th[w].pos, neg |-> fp.th[w].neg,
     met |-> fp.th[w].met]

\* one iteration of the spawn loop: new core with seed_list[seed_id++],
\* Initialize(init_T, ...), SetSeq, threads.push_back(thread(Run, sa))
FpSpawn ==
    /\ fp.phase = "spawn"
    /\ LET w == <<fp.i, fp.j>>
           a == AfterWorker(fp.j, "spawn", "join")
           seed == seed_list(fp.seed)[fp.seed_id]
           Put(k, q) ==
               [fp EXCEPT
                  !.th[w] = [state |-> "running", left |-> WorkerSteps, cost |-> Zero,
                             seed |-> seed, ptr |-> k.ptr,
                             blocks |-> q.blocks, pos |-> fp.pos_seq,
                             neg |-> fp.neg_seq, met |-> q.met,
                             start |-> [layout |-> Layout(k.core.blocks, fp.pos_seq, fp.neg_seq),
                                        from |-> Layout(fp.blocks, fp.pos_seq, fp.neg_seq)],
                             acc |-> {}],
                  !.gen = k.G, !.seed_id = fp.seed_id + 1,
                  !.phase = a.phase, !.j = a.j]
           Set(k) == Put(k, SetSeqOn(cfg, k.core.blocks, fp.pos_seq, fp.neg_seq, k.core.met))
       IN  fp' = Set(Constructed(w, seed, fp.blocks, fp.blocks_ptr, fp.gen))
    /\ CoreUnchanged

\* an inner iteration of FastSA in the thread of worker w; acc collects
\* the objects the thread has written
WorkerStep(w) ==
    /\ fp.th[w].state = "running"
    /\ fp.th[w].left > 0
    /\ LET Put(r) ==
               [fp EXCEPT
                  !.th[w].left = fp.th[w].left - 1,
                  !.th[w].blocks = r.core.blocks, !.th[w].pos = r.core.pos,
                  !.th[w].neg = r.core.neg, !.th[w].met = r.core.met,
                  !.th[w].acc = fp.th[w].acc \cup {<<"core", w>>}
                                   \cup {<<"generator", k>> : k \in {g \in DOMAIN fp.gen : r.G[g] # fp.gen[g]}},
                  !.gen = r.G]
       IN  fp' = Put(PerturbStep(cfg, w, fp.th[w].ptr, CoreOf(w), fp.gen))
    /\ CoreUnchanged

\* the end of FastSA in the thread of worker w: PackFloorplan and the
\* Calculate* calls of the final step, the Calculate* calls after the loop
Returned(c, core) ==
    LET Pk(p) == [core EXCEPT !.blocks = p.blocks, !.met = p.met]
    IN  Calculated(c, Calculated(c, Pk(Packed(core.blocks, core.pos, core.neg, core.met))))

\* FastSA returns in the thread of worker w
WorkerReturn(w) ==
    /\ fp.th[w].state = "running"
    /\ fp.th[w].left = 0
    /\ LET Put(r) ==
               [fp EXCEPT !.th[w].state = "returned",
                          !.th[w].blocks = r.blocks, !.th[w].met = r.met,
                          !.th[w].cost = Cost(cfg, r.met),
                          !.th[w].acc = fp.th[w].acc \cup {<<"core", w>>}]
       IN  fp' = Put(Returned(cfg, CoreOf(w)))
    /\ CoreUnchanged

\* th.join() passed without waiting for the thread
FpJoinNoWait ==
    /\ fp.phase = "join"
    /\ LET a == AfterWorker(fp.j, "join", "select")
       IN  fp' = [fp EXCEPT !.phase = a.phase, !.j = a.j]
    /\ CoreUnchanged

\* one iteration of for (auto& th : threads) th.join()
FpJoin ==
    /\ fp.phase = "join"
    /\ fp.th[<<fp.i, fp.j>>].state = "returned"
    /\ LET a == AfterWorker(fp.j, "join", "select")
       IN  fp' = [fp EXCEPT !.phase = a.phase, !.j = a.j]
    /\ CoreUnchanged

\* one iteration of the selection loop: sa_vec[j]->GetCost()
FpSelect ==
    /\ fp.phase = "select"
    /\ LET w == <<fp.i, fp.j>>
           a == AfterWorker(fp.j, "select", "read")
           better == RGt(fp.best_cost, fp.th[w].cost)
       IN  fp' = [fp EXCEPT !.read = fp.read \cup {w},
                            !.best_cost = IF better THEN fp.th[w].cost ELSE fp.best_cost,
                            !.best_sa = IF better THEN w ELSE fp.best_sa,
                            !.phase = a.phase, !.j = a.j]
    /\ CoreUnchanged

\* blocks, pos_seq, neg_seq and the reported terms read from best_sa
FpRead ==
    /\ fp.phase = "read"
    /\ fp.best_sa # NoCore
    /\ fp' = [fp EXCEPT !.read = fp.read \cup {fp.best_sa}, !.phase = "delete",
                        !.blocks = fp.th[fp.best_sa].blocks,
                        !.pos_seq = fp.th[fp.best_sa].pos,
                        !.neg_seq = fp.th[fp.best_sa].neg,
                        !.blocks_ptr = fp.th[fp.best_sa].ptr]
    /\ CoreUnchanged

\* blocks = best_sa->GetBlocks() while best_sa is still nullptr: no worker
\* of any level so far had a cost below FLT_MAX
FpReadNull ==
    /\ fp.phase = "read"
    /\ fp.best_sa = NoCore
    /\ fp' = [fp EXCEPT !.phase = "crashed"]
    /\ CoreUnchanged

\* delete on the core t: "deleted_twice" tells that it was deleted before
Deleted(t) ==
    [t EXCEPT !.state = IF t.state = "deleted" THEN "deleted_twice" ELSE "deleted"]

\* the delete loop with the test best_cost <= sa_vec[j]->GetCost()
FpDeleteTies ==
    /\ fp.phase = "delete"
    /\ fp' = [fp EXCEPT
                !.th = [w \in Workers |->
                           IF w[1] = fp.i /\ RLe(fp.best_cost, fp.th[w].cost)
                           THEN Deleted(fp.th[w])
                           ELSE fp.th[w]],
                !.i = fp.i + 1,
                !.phase = IF fp.i + 1 < NumLevel THEN "spawn" ELSE "align"]
    /\ CoreUnchanged

\* the delete loop of the level, and the step to the next level
FpDelete ==
    /\ fp.phase = "delete"
    /\ fp' = [fp EXCEPT
                !.th = [w \in Workers |->
                           IF w[1] = fp.i /\ RLt(fp.best_cost, fp.th[w].cost)
                           THEN Deleted(fp.th[w])
                           ELSE fp.th[w]],
                !.i = fp.i + 1,
                !.phase = IF fp.i + 1 < NumLevel THEN "spawn" ELSE "align"]
    /\ CoreUnchanged

\* best_sa->AlignMacro(), blocks = best_sa->GetBlocks(), the reads of
\* best_sa for the log and delete best_sa, after the level loop
FpAlign ==
    /\ fp.phase = "align"
    /\ \E al \in {AlignMacro(cfg, fp.th[fp.best_sa].blocks)} :
          fp' = [fp EXCEPT !.read = fp.read \cup {fp.best_sa}, !.phase = "end",
                           !.th[fp.best_sa] = Deleted([@ EXCEPT !.blocks = al]),
                           !.blocks = al]
    /\ CoreUnchanged

NextFloorplan ==
    \/ FpSpawn
    \/ \E w \in Workers : WorkerStep(w)
    \/ \E w \in Workers : WorkerReturn(w)
    \/ FpJoin
    \/ FpSelect
    \/ FpRead
    \/ FpReadNull
    \/ FpDelete
    \/ FpAlign

SpecFloorplan == InitFloorplan /\ [][NextFloorplan]_vars

-----------------------------------------------------------------------------
(* AlignMacro on its own: the calls that follow the last PackFloorplan of   *)
(* a run (inside CalculateNotchPenalty at the final step and after the      *)
(* loop, and in Floorplan), on every packed layout (every sequence pair) of *)
(* the blocks AlignBlocks: three macros and two soft blocks.                *)

\* the outline of these runs: threshold_H and threshold_V are 1/2
AlignCfg == [BaseCfg EXCEPT !.outline_width = I(5), !.outline_height = I(5)]

\* a block of width w and height h: a soft block with the one ratio h / w
\* or a macro with the one option (w, h)
AlignBlock(soft, w, h) ==
    IF soft
    THEN ChooseAspectRatioRandom(
             NewBlock(RMul(w, h), 0, Vec(<< <<RDiv(h, w), RDiv(h, w)>> >>)), 0, Zero)
    ELSE ResizeHardBlock(NewBlock(RMul(w, h), 1, Vec(<< <<w, h>> >>)), 0)

\* the blocks handed to the constructor
AlignBlocks ==
    Vec(<<AlignBlock(FALSE, I(1), I(1)),
          AlignBlock(FALSE, I(1), R(3, 2)),
          AlignBlock(FALSE, R(5, 4), R(1, 2)),
          AlignBlock(TRUE, R(5, 4), R(1, 2)),
          AlignBlock(TRUE, R(3, 2), R(7, 4))>>)

InitAlign ==
    /\ cfg = AlignCfg
    /\ pos_seq \in Perms(Size(AlignBlocks))
    /\ neg_seq \in Perms(Size(AlignBlocks))
    /\ \E p \in {Packed(AlignBlocks, pos_seq, neg_seq, ZeroMet)} :
          /\ blocks = p.blocks
          /\ met = p.met
    /\ pre_pos_seq = pos_seq
    /\ pre_neg_seq = neg_seq
    /\ pre_blocks = blocks
    /\ pre_met = ZeroMet
    /\ action_id = -1
    /\ block_id = -1
    /\ sa = [pre_cost |-> Zero, cost |-> Zero, best_cost |-> Zero, step |-> 0,
             T |-> Zero, num_restart |-> 0, num_shrink |-> 0, i |-> 0, index1 |-> 0]
    /\ pc = "align_input"
    /\ fp = FpIdle
    /\ fill = FillIdle
    /\ hist = [before |-> [layout |-> Layout(blocks, pos_seq, neg_seq), met |-> met],
               acc |-> Layout(blocks, pos_seq, neg_seq),
               last |-> "pack", steps |-> 0, ended |-> -1]

\* a call of AlignMacro(): pre_blocks keeps the blocks before the call,
\* sa.i counts the calls, hist.last tells whether the first call put an
\* alignment back because of overlap ("align_conflict") and whether it
\* aligned a macro after having put it back in the same pass ("align_retry")
AlignStep ==
    /\ pc \in {"align_input", "aligned_once", "aligned_twice"}
    /\ \E r \in {AlignMacroRun(cfg, blocks)} :
          /\ blocks' = r.blocks
          /\ hist' = IF pc # "align_input" THEN hist
                     ELSE [hist EXCEPT !.last = IF r.conflict.again THEN "align_retry"
                                                ELSE IF r.conflict.any THEN "align_conflict"
                                                ELSE "align"]
    /\ pre_blocks' = blocks
    /\ sa' = [sa EXCEPT !.i = sa.i + 1]
    /\ pc' = IF pc = "align_input" THEN "aligned_once"
             ELSE IF pc = "aligned_once" THEN "aligned_twice" ELSE "aligned_thrice"
    /\ UNCHANGED <<fill, fp, cfg, pos_seq, neg_seq, met, pre_pos_seq, pre_neg_seq,
                   pre_met, action_id, block_id>>

SpecAlign == InitAlign /\ [][AlignStep]_vars

-----------------------------------------------------------------------------
(* Opendp::gapFillers called from placeRowFillers, after fillerPlacement    *)
(* has sorted the filler masters of every implant by width (widest first)   *)
(* and cleared gap_fillers_.  A master is given by its width in database    *)
(* units, a list of masters by the sequence of these widths.                *)

\* the implant layers that have filler masters
Implants == {"nwell", "pwell"}

\* the sequence of the numbers of S, largest first
RECURSIVE Descending(_)
Descending(S) ==
    IF S = {} THEN <<>>
    ELSE LET m == CHOOSE v \in S : \A u \in S : u <= v
         IN  <<m>> \o Descending(S \ {m})

\* the lists std::sort leaves for the masters of one implant: distinct
\* widths of 1 .. MaxFillerSites sites
SortedMasters(site_width) ==
    {Descending({n * site_width : n \in sites}) :
        sites \in (SUBSET (1 .. MaxFillerSites)) \ {{}}}

\* the list fillers that has fewer than size elements, padded with empty
\* entries (vector::resize)
Resized(gap_fillers, size) ==
    IF Len(gap_fillers) < size
    THEN gap_fillers \o [k \in 1 .. size - Len(gap_fillers) |-> <<>>]
    ELSE gap_fillers

\* the two loops of gapFillers that leave the partial list when no list
\* fills the gap
RECURSIVE GreedyFillKept(_, _, _, _, _, _, _)
GreedyFillKept(filler_masters, k, site_width, gap, have_filler1, fillers, width) ==
    IF k > Len(filler_masters) THEN fillers
    ELSE LET filler_width == filler_masters[k] \div site_width
         IN  IF /\ width + filler_width <= gap
                /\ (have_filler1 \/ width + filler_width # gap - 1)
             THEN IF width + filler_width = gap
                  THEN Append(fillers, filler_masters[k])
                  ELSE GreedyFillKept(filler_masters, k, site_width, gap, have_filler1,
                                      Append(fillers, filler_masters[k]),
                                      width + filler_width)
             ELSE GreedyFillKept(filler_masters, k + 1, site_width, gap, have_filler1,
                                 fillers, width)

\* the two loops of gapFillers from master k on, with the list fillers of
\* width sites so far: the list returned, empty after fillers.clear()
RECURSIVE GreedyFill(_, _, _, _, _, _, _)
GreedyFill(filler_masters, k, site_width, gap, have_filler1, fillers, width) ==
    IF k > Len(filler_masters) THEN <<>>
    ELSE LET filler_width == filler_masters[k] \div site_width
         IN  IF /\ width + filler_width <= gap
                /\ (have_filler1 \/ width + filler_width # gap - 1)
             THEN IF width + filler_width = gap
                  THEN Append(fillers, filler_masters[k])
                  ELSE GreedyFill(filler_masters, k, site_width, gap, have_filler1,
                                  Append(fillers, filler_masters[k]),
                                  width + filler_width)
             ELSE GreedyFill(filler_masters, k + 1, site_width, gap, have_filler1,
                             fillers, width)

\* Opendp::gapFillers for an implant that has masters: gap_fillers_ after
\* the call, the list returned, and whether it was found in gap_fillers_
gapFillers(implant, gap, masters, site_width, gap_fillers_) ==
    LET filler_masters == masters[implant]
        gap_fillers == Resized(gap_fillers_[implant], gap + 1)
        have_filler1 == filler_masters[Len(filler_masters)] = site_width
        found == gap_fillers[gap + 1]
        fillers == IF found = <<>>
                   THEN GreedyFill(filler_masters, 1, site_width, gap, have_filler1, <<>>, 0)
                   ELSE found
    IN  [gap_fillers |->
            [gap_fillers_ EXCEPT ![implant] = [gap_fillers EXCEPT ![gap + 1] = fillers]],
         fillers |-> fillers,
         cached |-> found # <<>>]

\* fillerPlacement up to its first placeRowFillers: site_width_, the sorted
\* masters of every implant, gap_fillers_ cleared
InitFill ==
    /\ \E site_width \in 1 .. MaxSiteWidth :
       \E masters \in [Implants -> SortedMasters(site_width)] :
          fill = [FillIdle EXCEPT !.phase = "placing", !.site_width = site_width,
                                  !.masters = masters,
                                  !.gap_fillers = [i \in Implants |-> <<>>]]
    /\ cfg = BaseCfg
    /\ blocks = <<>>
    /\ pos_seq = <<>>
    /\ neg_seq = <<>>
    /\ pre_pos_seq = pos_seq
    /\ pre_neg_seq = neg_seq
    /\ pre_blocks = blocks
    /\ met = ZeroMet
    /\ pre_met = ZeroMet
    /\ action_id = -1
    /\ block_id = -1
    /\ sa = [pre_cost |-> Zero, cost |-> Zero, best_cost |-> Zero, step |-> 0,
             T |-> Zero, num_restart |-> 0, num_shrink |-> 0, i |-> 0, index1 |-> 0]
    /\ pc = "fill"
    /\ fp = FpIdle
    /\ hist = [before |-> [layout |-> Layout(blocks, pos_seq, neg_seq), met |-> met],
               acc |-> Layout(blocks, pos_seq, neg_seq),
               last |-> "construct", steps |-> 0, ended |-> -1]

\* a call gapFillers(implant, gap, filler_masters_by_implant) of
\* placeRowFillers for a gap of 1 .. MaxGap empty sites next to a cell of
\* the implant
GapFillersCall ==
    /\ fill.phase = "placing"
    /\ fill.calls < MaxFillCalls
    /\ \E implant \in Implants, gap \in 1 .. MaxGap :
       \E r \in {gapFillers(implant, gap, fill.masters, fill.site_width, fill.gap_fillers)} :
          fill' = [fill EXCEPT !.gap_fillers = r.gap_fillers, !.fillers = r.fillers,
                               !.cached = r.cached, !.implant = implant, !.gap = gap,
                               !.calls = fill.calls + 1]
    /\ UNCHANGED <<cfg, blocks, pos_seq, neg_seq, met, pre_blocks, pre_pos_seq,
                   pre_neg_seq, pre_met, action_id, block_id, sa, pc, hist, fp>>

SpecFill == InitFill /\ [][GapFillersCall]_vars

-----------------------------------------------------------------------------
(* Properties *)

\* blocks a and b are separated along x or along y
Apart(a, b) ==
    \/ RLe(RAdd(a.x, a.width), b.x)
    \/ RLe(RAdd(b.x, b.width), a.x)
    \/ RLe(RAdd(a.y, a.height), b.y)
    \/ RLe(RAdd(b.y, b.height), a.y)

\* C1: after PackFloorplan on any sequence pair and any non-negative
\* widths and heights, every two distinct blocks are separated along x or
\* along y (no overlap).
C1_PackNoOverlap ==
    pc = "packed" =>
        \A a, b \in Idx(blocks) : a # b => Apart(blocks[a], blocks[b])

\* three blocks packed, one pushed right and another pushed up
C1_Witness ==
    /\ pc = "packed"
    /\ N = 3
    /\ \E a, b \in Idx(blocks) :
          /\ a # b
          /\ RGt(blocks[a].x, Zero) /\ blocks[a].y = Zero
          /\ RGt(blocks[b].y, Zero) /\ blocks[b].x = Zero
          /\ RGt(blocks[a].width, Zero) /\ RGt(blocks[b].height, Zero)

\* C2: in every reachable state of a core, pos_seq_ and neg_seq_ are both
\* permutations of 0 .. N-1 (each index occurs exactly once in each).
C2_SeqPermutations ==
    IsPermutation(pos_seq, N) /\ IsPermutation(neg_seq, N)

\* a double swap was undone by Restore on sequences that are not the
\* identity
C2_Witness ==
    /\ hist.last = "restore"
    /\ action_id = 3
    /\ N >= 2
    /\ pos_seq # Identity(N)
    /\ neg_seq # Identity(N)

\* C3: with N >= 2 blocks, Perturb followed by Restore leaves pos_seq_,
\* neg_seq_, the width, height and area of every block, the stored width_,
\* height_, area_ and the six cost terms as they were before the Perturb.
C3_UndoRoundTrip ==
    (hist.last = "restore" /\ N >= 2) =>
        /\ Layout(blocks, pos_seq, neg_seq) = hist.before.layout
        /\ met = hist.before.met

\* a resize of a soft block was undone, and the resize had changed the
\* packing (another block still carries the position packed after it)
C3_Witness ==
    /\ hist.last = "restore"
    /\ N >= 2
    /\ action_id = 0
    /\ blocks[block_id].is_soft
    /\ \E i \in Idx(blocks) : i # block_id /\ blocks[i] # pre_blocks[i]

\* C4: every soft block has width * height = area in every state (after
\* construction, Resize, ShrinkSoftBlock and Restore), and a Perturb (so a
\* Resize move) leaves the area value of every block unchanged.
C4_SoftAreaKept ==
    \A i \in Idx(blocks) :
        /\ blocks[i].is_soft =>
              RMul(blocks[i].width, blocks[i].height) = blocks[i].area
        /\ hist.last = "perturb" =>
              blocks[i].area = hist.before.layout.size[i][3]

\* a Resize move has changed the width of a soft block that was shrunk
\* before
C4_Witness ==
    /\ hist.last = "perturb"
    /\ action_id = 0
    /\ pc = "decide"
    /\ blocks[block_id].is_soft
    /\ blocks[block_id].width # hist.before.layout.size[block_id][1]
    /\ sa.num_shrink > 0

\* the widths and heights tried on the Block methods
Lengths == {Zero, R(1, 2), I(1), I(3)}

\* C5: in every reachable state the (width, height) of every hard macro is
\* one entry of its option table, and ChangeWidth, ChangeHeight and
\* ShrinkBlocks leave the dimensions of a hard macro as they are.
C5_HardFromTable ==
    \A i \in Idx(blocks) :
        blocks[i].num_macro > 0 =>
            /\ \E k \in Idx(blocks[i].aspect_ratio) :
                  <<blocks[i].width, blocks[i].height>> = blocks[i].aspect_ratio[k]
            /\ \A l \in Lengths :
                  /\ ChangeWidth(blocks[i], l) = blocks[i]
                  /\ ChangeHeight(blocks[i], l) = blocks[i]
            /\ ShrinkBlocks(blocks, cfg.shrink_factor)[i] = blocks[i]

\* the soft blocks were shrunk beside a hard macro, which a Resize move
\* then switched to its other option
C5_Witness ==
    /\ hist.last = "perturb"
    /\ pc = "decide"
    /\ action_id = 0
    /\ sa.num_shrink > 0
    /\ blocks[block_id].num_macro > 0
    /\ blocks[block_id].width # hist.before.layout.size[block_id][1]

\* height / width of b lies in one of the intervals of aspect_ratio_
RatioAllowed(b) ==
    \E k \in Idx(b.aspect_ratio) :
        /\ RLe(RMul(b.aspect_ratio[k][1], b.width), b.height)
        /\ RLe(b.height, RMul(b.aspect_ratio[k][2], b.width))

\* C6: after any sequence of Resize moves and ShrinkBlocks, the ratio
\* height / width of every soft block lies inside one of its allowed
\* [minRatio, maxRatio] intervals.
C6_SoftRatioAllowed ==
    \A i \in Idx(blocks) : blocks[i].is_soft => RatioAllowed(blocks[i])

\* C7 as a state property: Perturb is never inside the sampling loop of
\* Resize without a resizable block that lets the loop end (the loop does
\* not change the blocks, so it would sample for ever).
C7_ResizeLoopCanEnd ==
    pc = "resize_loop" => Resizeable(blocks) # {}

\* the restart rule of FastSA: at most max_num_restart restarts, each at
\* the final step of a schedule whose repacked layout is infeasible, each
\* setting step to 1 and T to init_T_; the final step of a schedule ends
\* the loop when the layout is feasible or no restart is left
RestartRule ==
    /\ sa.num_restart <= max_num_restart
    /\ hist.last = "restart" =>
          /\ sa.step = 1 /\ sa.T = cfg.init_T /\ sa.num_restart >= 1
          /\ ~IsFeasible(cfg, met.width, met.height)
    /\ hist.last = "final_step" =>
          /\ pc \in {"finish", "crashed"}
          /\ IsFeasible(cfg, met.width, met.height) \/ sa.num_restart = max_num_restart

\* C8: FastSA restarts only by the restart rule, at most 2 times, and
\* every run returns after at most 3 schedules: the run is never at a
\* point it cannot leave.
C8_RestartsAndReturns ==
    /\ RestartRule
    /\ pc # "resize_loop"

\* C9 as stated: the layout FastSA leaves has the cost tracked as
\* best_cost, the minimum over the accepted states.
C9_LeavesBestCost ==
    pc = "done" => Cost(cfg, met) = sa.best_cost

\* C9: when FastSA returns, the sequences and block sizes it leaves are
\* those of the last accepted move (of the state FastSA started from if
\* none was accepted), and best_cost is a number not above the cost
\* recorded for that state.
C9_LeavesLastAccepted ==
    pc = "done" =>
        /\ Layout(blocks, pos_seq, neg_seq) = hist.acc
        /\ RLe(sa.best_cost, sa.pre_cost)

\* FastSA returned after a rejected move, keeping an accepted state whose
\* recorded cost is above best_cost
C9_Witness ==
    /\ pc = "done"
    /\ RLt(sa.best_cost, sa.pre_cost)
    /\ hist.acc # hist.before.layout

\* whether worker w has left FastSA
Finished(w) == fp.th[w].state \in {"returned", "deleted"}

\* C10: every worker whose cost, blocks or sequences Floorplan has read
\* had returned from FastSA; once the selection starts, every worker of
\* the level has been joined; and a worker of level l + 1 exists only when
\* every worker of level l has returned.
C10_ReadAfterJoin ==
    /\ \A w \in fp.read : Finished(w)
    /\ fp.phase \in {"select", "read", "delete"} =>
          \A j \in 0 .. NumWorker - 1 : Finished(<<fp.i, j>>)
    /\ \A w, v \in Workers :
          (fp.th[w].state # "none" /\ v[1] < w[1]) => Finished(v)

\* a worker of the second level runs while the first of the level has
\* returned, with the results of the first level read
C10_Witness ==
    /\ fp.i = 1
    /\ fp.th[<<1, 0>>].state = "returned"
    /\ fp.th[<<1, 1>>].state = "running"
    /\ <<0, 0>> \in fp.read
    /\ fp.best_sa[1] = 0

\* the workers whose thread is running
Running == {w \in Workers : fp.th[w].state = "running"}

\* every Block of a core points to the generator of that core, a thread has
\* written only its own core and generator, and no object was written by
\* two threads
Owned ==
    /\ \A w \in Workers :
          fp.th[w].state # "none" =>
              /\ fp.th[w].ptr = w
              /\ fp.th[w].acc \subseteq {<<"core", w>>, <<"generator", w>>}
    /\ \A w, v \in Workers : w # v => fp.th[w].acc \cap fp.th[v].acc = {}

\* C11: while workers run concurrently no two of them write or read-write
\* the same object: each writes only its own blocks, sequences, cost state
\* and generator (the Block objects of a core point to the generator of
\* that core), and the nets, regions, locations and the blocks and
\* sequences of the driver are not written while a worker runs.
C11_WorkersShareNothing ==
    /\ []Owned
    /\ [][Running # {} =>
            /\ cfg' = cfg
            /\ fp'.blocks = fp.blocks
            /\ fp'.pos_seq = fp.pos_seq
            /\ fp'.neg_seq = fp.neg_seq]_vars

\* both workers of the second level run and each has drawn from its
\* generator, on blocks copied from a worker of the first level
C11_Witness ==
    /\ Running = {<<1, 0>>, <<1, 1>>}
    /\ \A w \in Running : <<"generator", w>> \in fp.th[w].acc
    /\ fp.blocks_ptr \in Workers

\* C12: after the selection of a level, the core best_sa selected is a
\* worker of that level and no worker of the level has a lower final cost.
C12_LevelWinner ==
    (fp.phase = "read" /\ fp.best_sa # NoCore) =>
        /\ fp.best_sa[1] = fp.i
        /\ \A j \in 0 .. NumWorker - 1 :
              RLe(fp.th[fp.best_sa].cost, fp.th[<<fp.i, j>>].cost)

\* C13: every worker of a level after the first starts FastSA with the
\* sequences of the winner read before it and with the width and height of
\* every block as the winner left them.
C13_StartsFromWinner ==
    \A w \in Workers :
        (fp.th[w].state # "none" /\ w[1] >= 1) =>
            /\ fp.th[w].start.layout.pos = fp.th[w].start.from.pos
            /\ fp.th[w].start.layout.neg = fp.th[w].start.from.neg
            /\ \A b \in Idx(fp.th[w].blocks) :
                  /\ fp.th[w].start.layout.size[b][1] = fp.th[w].start.from.size[b][1]
                  /\ fp.th[w].start.layout.size[b][2] = fp.th[w].start.from.size[b][2]

\* FastSA of a core from its inner iteration with n iterations left, run
\* with no other thread in between
RECURSIVE StepsAlone(_, _, _, _, _, _)
StepsAlone(c, k, ptr, core, G, n) ==
    IF n = 0 THEN core
    ELSE LET r == PerturbStep(c, k, ptr, core, G)
         IN  StepsAlone(c, k, ptr, r.core, r.G, n - 1)

\* the slot of seed_list the claim gives to worker w
SeedSlot(w) == 1 + w[1] * NumWorker + w[2]

\* worker w built from the blocks and sequences of d and run alone: the
\* core it returns with
WorkerAlone(c, seed, w, d) ==
    LET Run(k, q) ==
            Returned(c, StepsAlone(c, w, k.ptr,
                                   [blocks |-> q.blocks, pos |-> d.pos, neg |-> d.neg,
                                    met |-> q.met],
                                   k.G, WorkerSteps))
        Set(k) == Run(k, SetSeqOn(c, k.core.blocks, d.pos, d.neg, k.core.met))
    IN  Set(Constructed(w, seed_list(seed)[SeedSlot(w)], d.blocks, d.ptr, FpIdle.gen))

\* the selection loop of level i from worker j on, every worker run alone
\* from the blocks and sequences of d; best is the best core so far
RECURSIVE SelectAlone(_, _, _, _, _, _)
SelectAlone(c, seed, i, j, d, best) ==
    IF j >= NumWorker THEN best
    ELSE LET Pick(r) ==
                 IF RGt(best.cost, Cost(c, r.met))
                 THEN [cost |-> Cost(c, r.met), blocks |-> r.blocks, pos |-> r.pos,
                       neg |-> r.neg, ptr |-> <<i, j>>]
                 ELSE best
         IN  SelectAlone(c, seed, i, j + 1, d, Pick(WorkerAlone(c, seed, <<i, j>>, d)))

\* the best core after the levels before level upto, one worker after the
\* other
RECURSIVE LevelsAlone(_, _, _, _, _)
LevelsAlone(c, seed, i, upto, best) ==
    IF i >= upto THEN best
    ELSE LevelsAlone(c, seed, i + 1, upto, SelectAlone(c, seed, i, 0, best, best))

\* what Floorplan has read into blocks, pos_seq, neg_seq before level upto
DriverAlone(c, seed, upto) ==
    LET From(s) ==
            LevelsAlone(c, seed, 0, upto,
                        [cost |-> FLT_MAX, blocks |-> s.core.blocks, pos |-> s.core.pos,
                         neg |-> s.core.neg, ptr |-> Sampler])
    IN  From(Sampled(c, seed))

\* C14: worker j of level i is built with seed_list[1 + i * num_worker + j],
\* a slot inside the seed list, and for every interleaving of the worker
\* threads every worker returns with the blocks, sequences and terms it
\* has when the workers run one after the other, and Floorplan returns the
\* same blocks.
C14_SameForEverySchedule ==
    /\ \A w \in Workers :
          fp.th[w].state # "none" =>
              /\ SeedSlot(w) < num_seed
              /\ fp.th[w].seed = seed_list(fp.seed)[SeedSlot(w)]
    /\ \A w \in Workers :
          fp.th[w].state \in {"returned", "deleted"} =>
              \/ fp.phase = "end" /\ w = fp.best_sa
              \/ CoreOf(w) = WorkerAlone(cfg, fp.seed, w, DriverAlone(cfg, fp.seed, w[1]))
    /\ fp.phase = "end" =>
          fp.blocks = AlignMacro(cfg, DriverAlone(cfg, fp.seed, NumLevel).blocks)

\* the second worker of the last level has returned while the first has
\* not made a step yet
C14_Witness ==
    /\ fp.th[<<NumLevel - 1, 1>>].state = "returned"
    /\ fp.th[<<NumLevel - 1, 0>>].state = "running"
    /\ fp.th[<<NumLevel - 1, 0>>].left = WorkerSteps

\* the hard macros of bs
Macros(bs) == {i \in Idx(bs) : bs[i].num_macro > 0}

\* the packed layout lies inside the outline: CalculateNotchPenalty goes
\* on to AlignMacro
InsideOutline ==
    ~(RGt(met.width, cfg.outline_width) \/ RGt(met.height, cfg.outline_height))

\* C15: for a layout whose hard macros lie inside the outline and on which
\* a first AlignMacro call puts no alignment back because of overlap, a
\* second call right after it leaves the x and y of every block as they are.
C15_AlignIdempotent ==
    (/\ pc = "aligned_twice"
     /\ hist.last = "align"
     /\ InsideOutline) =>
        \A i \in Idx(blocks) :
            blocks[i].x = pre_blocks[i].x /\ blocks[i].y = pre_blocks[i].y

\* C16: AlignMacro on a layout in which no two hard macros overlap (a
\* packed layout) leaves a layout in which no two hard macros overlap.
C16_AlignNoMacroOverlap ==
    pc = "aligned_once" =>
        \A a, b \in Macros(blocks) : a # b => Apart(blocks[a], blocks[b])

\* the blocks are those Floorplan returns for the packed layout: AlignMacro
\* has run once (in Floorplan) on a layout outside the outline, three times
\* (twice in CalculateNotchPenalty before) on a layout inside it
ReturnedByFloorplan ==
    \/ pc = "aligned_once" /\ ~InsideOutline
    \/ pc = "aligned_thrice" /\ InsideOutline

\* C17: in the block list Floorplan returns, after the last level and the
\* final AlignMacro, no two blocks overlap, hard macros or soft blocks.
C17_ReturnedNoOverlap ==
    ReturnedByFloorplan =>
        \A a, b \in Idx(blocks) : a # b => Apart(blocks[a], blocks[b])

PackedAlone(bs, m) ==
    /\ bs[0].x = Zero /\ bs[0].y = Zero
    /\ m.width = bs[0].width /\ m.height = bs[0].height
    /\ m.area = RMul(bs[0].width, bs[0].height)

\* C19: on a single-block input the core that Initialize() has sampled and
\* every worker in FastSA hold that block packed at the origin, width_,
\* height_ and area_ being the block's width, height and their product, and
\* a Perturb of a worker changes neither its sequences nor its block.
C19_SingleBlock ==
    /\ [](Size(cfg.clusters) = 1 =>
            /\ PackedAlone(blocks, met)
            /\ \A w \in Workers :
                  fp.th[w].state \in {"running", "returned"} =>
                      PackedAlone(fp.th[w].blocks, fp.th[w].met))
    /\ [][Size(cfg.clusters) = 1 =>
            \A w \in Workers :
                (fp.th[w].state = "running" /\ fp'.th[w].state = "running") =>
                    /\ fp'.th[w].pos = fp.th[w].pos
                    /\ fp'.th[w].neg = fp.th[w].neg
                    /\ fp'.th[w].blocks = fp.th[w].blocks]_vars

\* the member norm_X_ of the term X
NormName ==
    [area |-> "norm_area", wirelength |-> "norm_wirelength",
     outline_penalty |-> "norm_outline_penalty",
     boundary_penalty |-> "norm_boundary_penalty",
     macro_blockage_penalty |-> "norm_macro_blockage_penalty",
     location_penalty |-> "norm_location_penalty",
     notch_penalty |-> "norm_notch_penalty"]

\* C20: after Initialize() every normalization constant is the mean of its
\* term over the samples and is positive if the term was nonzero in a
\* sample, and the constant of the term NormCost divides without a test,
\* norm_area_, is not zero.
C20_NormsGuarded ==
    fp.phase # "idle" =>
        /\ \A t \in NormTerms :
              /\ cfg[NormName[t]] =
                     RDiv(RSum([i \in 0 .. Len(fp.samples) - 1 |-> fp.samples[i + 1][t]]),
                          I(Len(fp.samples)))
              /\ (\E i \in 1 .. Len(fp.samples) : fp.samples[i][t] # Zero) =>
                     RGt(cfg[NormName[t]], Zero)
        /\ cfg.norm_area # Zero

\* len <= outline * 1.001, in integers
WithinTolerance(len, outline) ==
    1000 * len[1] * outline[2] <= 1001 * outline[1] * len[2]

\* C21: IsFeasible() is true exactly when width_ is at most 1.001 times
\* outline_width_ and height_ at most 1.001 times outline_height_; at the
\* final step of a schedule the restart is decided by that test on the
\* layout PackFloorplan left, and the test changes neither the sequences
\* nor the packed width_ and height_.
C21_IsFeasible ==
    /\ [](IsFeasible(cfg, met.width, met.height) <=>
              /\ WithinTolerance(met.width, cfg.outline_width)
              /\ WithinTolerance(met.height, cfg.outline_height))
    /\ [][(pc = "end_step" /\ sa.step + 1 = cfg.max_num_step) =>
              /\ hist'.last = "restart" <=>
                    /\ sa.num_restart < max_num_restart
                    /\ ~(/\ WithinTolerance(met'.width, cfg.outline_width)
                         /\ WithinTolerance(met'.height, cfg.outline_height))
              /\ pos_seq' = pos_seq /\ neg_seq' = neg_seq
              /\ met'.width = PackFloorplan(blocks, pos_seq, neg_seq).width
              /\ met'.height = PackFloorplan(blocks, pos_seq, neg_seq).height]_vars

\* a schedule ended with a layout wider than the outline by more than the
\* tolerance and FastSA restarted
C21_Witness ==
    /\ hist.last = "restart"
    /\ ~WithinTolerance(met.width, cfg.outline_width)
    /\ WithinTolerance(met.height, cfg.outline_height)

\* C22: a schedule of FastSA that reaches its final-step check has executed
\* max_num_step outer steps, and an outer step that ends has executed
\* perturb_per_step inner iterations.
C22_ScheduleLength ==
    /\ hist.ended # -1 => hist.ended = cfg.max_num_step
    /\ pc = "end_step" => sa.i = cfg.perturb_per_step

\* C23: in an inner iteration of FastSA a move that lowers the cost is never
\* rejected, a move that raises the cost is accepted only while the
\* acceptance probability exp(-delta_cost / T) is positive (T > 0), a
\* rejected move is undone by Restore within the same iteration, and so
\* between two inner iterations the sequences and block sizes are those of
\* the last accepted state.
C23_AcceptRule ==
    /\ [](pc \in {"inner", "end_step", "finish"} =>
              Layout(blocks, pos_seq, neg_seq) = hist.acc)
    /\ [][pc = "decide" =>
              /\ RLt(sa.cost, sa.pre_cost) =>
                     /\ hist'.last # "restore"
                     /\ sa'.pre_cost = IF hist'.last = "shrink"
                                       THEN Cost(cfg, met') ELSE sa.cost
              /\ (RGt(sa.cost, sa.pre_cost) /\ hist'.last \in {"accept", "shrink"}) =>
                     RGt(sa.T, Zero)
              /\ hist'.last = "restore" =>
                     /\ RGt(sa.cost, sa.pre_cost)
                     /\ Layout(blocks', pos_seq', neg_seq') = hist.before.layout
                     /\ sa'.pre_cost = sa.pre_cost]_vars

\* a move of higher cost was rejected and undone after an earlier move of
\* higher cost had been accepted
C23_Witness ==
    /\ hist.last = "restore"
    /\ RLt(sa.best_cost, sa.pre_cost)
    /\ hist.acc # hist.before.layout \/ sa.num_restart > 0

\* the blocks with every soft one scaled by shrink_factor in both dimensions
SoftScaled(bs, f) ==
    [i \in Idx(bs) |->
        IF bs[i].is_soft
        THEN [bs[i] EXCEPT !.width = RMul(bs[i].width, f),
                           !.height = RMul(bs[i].height, f),
                           !.area = RMul(RMul(bs[i].width, f), RMul(bs[i].height, f))]
        ELSE bs[i]]

\* step is a multiple of int(max_num_step * shrink_freq)
ShrinkStep(c, step) ==
    \E k \in 1 .. c.max_num_step :
        /\ RLe(I(k), RMul(I(c.max_num_step), c.shrink_freq))
        /\ RLt(RMul(I(c.max_num_step), c.shrink_freq), I(k + 1))
        /\ step % k = 0

\* C24: FastSA shrinks only in an inner iteration whose move is accepted
\* with a cost below best_cost, at an outer step that is a multiple of
\* int(max_num_step * shrink_freq), on an infeasible layout; the shrink
\* multiplies the width and height of every soft block by shrink_factor,
\* leaves the hard macros as they are, repacks, and sets the current cost
\* and the best cost to the cost of the shrunk layout.
C24_ShrinkRule ==
    [][(pc = "decide" /\ hist'.last = "shrink") =>
          /\ RLe(sa.cost, sa.pre_cost) \/ RGt(sa.T, Zero)
          /\ RLt(sa.cost, sa.best_cost)
          /\ ShrinkStep(cfg, sa.step)
          /\ ~(/\ WithinTolerance(met.width, cfg.outline_width)
               /\ WithinTolerance(met.height, cfg.outline_height))
          /\ \A i \in Idx(blocks) :
                /\ blocks'[i].width = SoftScaled(blocks, cfg.shrink_factor)[i].width
                /\ blocks'[i].height = SoftScaled(blocks, cfg.shrink_factor)[i].height
                /\ ~blocks[i].is_soft =>
                       /\ blocks'[i].width = blocks[i].width
                       /\ blocks'[i].height = blocks[i].height
          /\ pos_seq' = pos_seq /\ neg_seq' = neg_seq
          /\ \E p \in {PackFloorplan(SoftScaled(blocks, cfg.shrink_factor), pos_seq, neg_seq)} :
                /\ met'.width = p.width
                /\ met'.height = p.height
                /\ met'.area = p.area
          /\ sa'.pre_cost = Cost(cfg, met')
          /\ sa'.best_cost = Cost(cfg, met')]_vars

\* a shrink was made at the second outer step of a schedule whose first
\* step is no shrink step, on a layout with a soft block and a hard macro
C24_Witness ==
    /\ hist.last = "shrink"
    /\ sa.step = 2
    /\ ~ShrinkStep(cfg, 1)
    /\ \E i, j \in Idx(blocks) : blocks[i].is_soft /\ ~blocks[j].is_soft

\* alpha * area / norm_area plus weight * term / norm for each of the six
\* other terms of a whose norm is positive
WeightedSum(c, a) ==
    LET part(weight, value, norm) ==
            IF RGt(norm, Zero) THEN RDiv(RMul(weight, value), norm) ELSE Zero
    IN  RSum(Vec(<<RDiv(RMul(c.alpha, a.area), c.norm_area),
                   part(c.beta, a.wirelength, c.norm_wirelength),
                   part(c.gamma, a.outline_penalty, c.norm_outline_penalty),
                   part(c.boundary_weight, a.boundary_penalty, c.norm_boundary_penalty),
                   part(c.macro_blockage_weight, a.macro_blockage_penalty,
                        c.norm_macro_blockage_penalty),
                   part(c.location_weight, a.location_penalty, c.norm_location_penalty),
                   part(c.notch_weight, a.notch_penalty, c.norm_notch_penalty)>>))

\* NormCost called on the terms a while the object holds the terms m
NormCostOf(c, m, a) ==
    NormCost(c, m, a.area, a.wirelength, a.outline_penalty, a.boundary_penalty,
             a.macro_blockage_penalty, a.location_penalty, a.notch_penalty)

\* C25: NormCost is a function of its seven arguments and the weights and
\* norms only: called on the terms of an earlier sample (those evaluated
\* before the last Perturb) it returns the weighted sum of that sample's own
\* terms, whatever terms the object holds at the call.
C25_NormCostOfArguments ==
    (pc = "decide" /\ sa.num_restart > 0) =>
        NormCostOf(cfg, met, hist.before.met) = WeightedSum(cfg, hist.before.met)

\* the position of block b in the sequence seq
PlaceIn(seq, b) == CHOOSE i \in DOMAIN seq : seq[i] = b

\* a precedes b in both sequences
BeforeInBoth(a, b) ==
    /\ PlaceIn(pos_seq, a) < PlaceIn(pos_seq, b)
    /\ PlaceIn(neg_seq, a) < PlaceIn(neg_seq, b)

\* a follows b in pos_seq_ and precedes b in neg_seq_
AfterThenBefore(a, b) ==
    /\ PlaceIn(pos_seq, a) > PlaceIn(pos_seq, b)
    /\ PlaceIn(neg_seq, a) < PlaceIn(neg_seq, b)

\* the greatest element of the set S of numbers, 0 if S is empty
Greatest(S) == IF S = {} THEN Zero ELSE CHOOSE m \in S : \A s \in S : RLe(s, m)

\* C26: after PackFloorplan, x of every block b is the maximum of
\* x_a + width_a over the blocks a that precede b in both sequences (0 if
\* none), y of b is the maximum of y_a + height_a over the blocks a that
\* follow b in pos_seq_ and precede b in neg_seq_ (0 if none), and width_,
\* height_ and area_ are max(x + width), max(y + height) over all blocks
\* and their product.
C26_PackNoSlack ==
    pc = "packed" =>
        /\ \A b \in Idx(blocks) :
              /\ blocks[b].x =
                     Greatest({RAdd(blocks[a].x, blocks[a].width) :
                                  a \in {c \in Idx(blocks) : BeforeInBoth(c, b)}})
              /\ blocks[b].y =
                     Greatest({RAdd(blocks[a].y, blocks[a].height) :
                                  a \in {c \in Idx(blocks) : AfterThenBefore(c, b)}})
        /\ met.width = Greatest({RAdd(blocks[a].x, blocks[a].width) : a \in Idx(blocks)})
        /\ met.height = Greatest({RAdd(blocks[a].y, blocks[a].height) : a \in Idx(blocks)})
        /\ met.area = RMul(met.width, met.height)

\* three blocks packed, one of them pushed right by a block before it in both
\* sequences and pushed up by another block
C26_Witness ==
    /\ pc = "packed"
    /\ N = 3
    /\ \E a, b, c \in Idx(blocks) :
          /\ BeforeInBoth(a, c) /\ AfterThenBefore(b, c)
          /\ RGt(blocks[a].width, Zero) /\ RGt(blocks[b].height, Zero)
          /\ blocks[c].x = RAdd(blocks[a].x, blocks[a].width)
          /\ blocks[c].y = RAdd(blocks[b].y, blocks[b].height)
          /\ RGt(met.width, blocks[c].x) /\ RGt(met.height, blocks[c].y)

\* the order of a and b is the same in pos_seq_ and neg_seq_
SameOrder(a, b) ==
    (PlaceIn(pos_seq, a) < PlaceIn(pos_seq, b)) <=> (PlaceIn(neg_seq, a) < PlaceIn(neg_seq, b))

\* blocks a and b are separated along x
ApartInX(a, b) == RLe(RAdd(a.x, a.width), b.x) \/ RLe(RAdd(b.x, b.width), a.x)

\* blocks a and b are separated along y
ApartInY(a, b) == RLe(RAdd(a.y, a.height), b.y) \/ RLe(RAdd(b.y, b.height), a.y)

\* C27 as stated: two distinct blocks in the same relative order in both
\* sequences are separated in Y, and two blocks whose relative order
\* differs are separated in X.
C27_SameOrderStacked ==
    pc = "packed" =>
        \A a, b \in Idx(blocks) :
            a # b => IF SameOrder(a, b) THEN ApartInY(blocks[a], blocks[b])
                                        ELSE ApartInX(blocks[a], blocks[b])

\* C27: two distinct blocks in the same relative order in both sequences
\* are separated in X, the earlier one left of the other; two blocks whose
\* relative order differs are separated in Y, the one later in pos_seq_
\* below the other.
C27_SameOrderSideBySide ==
    pc = "packed" =>
        \A a, b \in Idx(blocks) :
            /\ BeforeInBoth(a, b) => RLe(RAdd(blocks[a].x, blocks[a].width), blocks[b].x)
            /\ AfterThenBefore(a, b) => RLe(RAdd(blocks[a].y, blocks[a].height), blocks[b].y)
            /\ a # b => IF SameOrder(a, b) THEN ApartInX(blocks[a], blocks[b])
                                           ELSE ApartInY(blocks[a], blocks[b])

\* three blocks of positive size: two in the same order that share a range
\* of y, and two in different order that share a range of x
C27_Witness ==
    /\ pc = "packed"
    /\ N = 3
    /\ \A a \in Idx(blocks) : RGt(blocks[a].width, Zero) /\ RGt(blocks[a].height, Zero)
    /\ \E a, b \in Idx(blocks) :
          a # b /\ SameOrder(a, b) /\ ~ApartInY(blocks[a], blocks[b])
    /\ \E a, b \in Idx(blocks) :
          a # b /\ ~SameOrder(a, b) /\ ~ApartInX(blocks[a], blocks[b])

\* C28: DoubleSwap exchanges the entries of pos_seq_ at two distinct
\* positions, and in neg_seq_ exchanges the two block ids now at those
\* positions wherever they stand; every other entry of both sequences is
\* unchanged.
C28_DoubleSwap ==
    (pc = "swapped" /\ action_id = 3) =>
        \E i, j \in Idx(blocks) :
            /\ i # j
            /\ \A k \in Idx(blocks) :
                  /\ pos_seq[k] = IF k = i THEN pre_pos_seq[j]
                                  ELSE IF k = j THEN pre_pos_seq[i]
                                  ELSE pre_pos_seq[k]
                  /\ neg_seq[k] = IF pre_neg_seq[k] = pre_pos_seq[i] THEN pre_pos_seq[j]
                                  ELSE IF pre_neg_seq[k] = pre_pos_seq[j] THEN pre_pos_seq[i]
                                  ELSE pre_neg_seq[k]

\* a double swap on three blocks where the two blocks stood at other
\* positions in neg_seq_ than in pos_seq_
C28_Witness ==
    /\ pc = "swapped"
    /\ action_id = 3
    /\ N = 3
    /\ \E i, j \in Idx(blocks) :
          /\ i # j
          /\ pos_seq[i] = pre_pos_seq[j] /\ pos_seq[j] = pre_pos_seq[i]
          /\ {PlaceIn(pre_neg_seq, pos_seq[i]), PlaceIn(pre_neg_seq, pos_seq[j])} # {i, j}
          /\ neg_seq # pre_neg_seq

\* C29: after a Resize move on a hard macro the (width, height) of the
\* macro is an entry of its option table other than the one it had before
\* the move.
C29_HardSwitchesOption ==
    (pc = "decide" /\ action_id = 0 /\ blocks[block_id].num_macro > 0) =>
        /\ \E k \in Idx(blocks[block_id].aspect_ratio) :
              <<blocks[block_id].width, blocks[block_id].height>> =
                  blocks[block_id].aspect_ratio[k]
        /\ <<blocks[block_id].width, blocks[block_id].height>> #
              <<hist.before.layout.size[block_id][1], hist.before.layout.size[block_id][2]>>

\* the side-neighbours of cell inside the num_x by num_y grid
SideNeighbours(cell, num_x, num_y) ==
    {n \in {<<cell[1] - 1, cell[2]>>, <<cell[1] + 1, cell[2]>>,
            <<cell[1], cell[2] - 1>>, <<cell[1], cell[2] + 1>>} :
        InGrid(n, num_x, num_y)}

\* the covered side-neighbours an uncovered cell needs to be a notch:
\* inner for a cell off the border of the grid, edge for a cell on one
\* border, 1 for a corner cell
NeededNeighbours(cell, num_x, num_y, inner, edge) ==
    IF cell[1] \in {0, num_x - 1} /\ cell[2] \in {0, num_y - 1} THEN 1
    ELSE IF cell[1] \in {0, num_x - 1} \/ cell[2] \in {0, num_y - 1} THEN edge
    ELSE inner

\* notch_penalty_ of the grid xg, yg when the uncovered cells with enough
\* covered side-neighbours and a width or height within the threshold count
RulePenalty(c, xg, yg, covered, inner, edge) ==
    LET num_x == Size(xg) - 1
        num_y == Size(yg) - 1
        cw(cell) == RSub(xg[cell[1] + 1], xg[cell[1]])
        ch(cell) == RSub(yg[cell[2] + 1], yg[cell[2]])
        counted(cell) ==
            /\ cell \notin covered
            /\ Cardinality(SideNeighbours(cell, num_x, num_y) \cap covered)
                   >= NeededNeighbours(cell, num_x, num_y, inner, edge)
            /\ \/ 10 * cw(cell)[1] * c.outline_width[2] <= cw(cell)[2] * c.outline_width[1]
               \/ 10 * ch(cell)[1] * c.outline_height[2] <= ch(cell)[2] * c.outline_height[1]
        share(cell) ==
            IF counted(cell)
            THEN RSqrt(RDiv(RMul(cw(cell), ch(cell)),
                            RMul(c.outline_width, c.outline_height)))
            ELSE Zero
    IN  RSum([i \in 0 .. num_x - 1 |->
                RSum([j \in 0 .. num_y - 1 |-> share(<<i, j>>)])])

\* the penalty by that rule on the blocks bs
RuleOn(c, bs, inner, edge) ==
    RulePenalty(c, XLines(c, bs), YLines(c, bs),
                CoveredCells(bs, XLines(c, bs), YLines(c, bs)), inner, edge)

\* C30: on an aligned layout inside the outline whose scan stays inside the
\* grid, CalculateNotchPenalty counts exactly the uncovered cells that have
\* at least 2 covered side-neighbours (interior cells) or at least 1 (corner
\* and edge cells) and a width of at most outline_width / 10 or a height of
\* at most outline_height / 10 (both below 50).
C30_NotchRule ==
    (/\ pc = "aligned_once"
     /\ InsideOutline
     /\ ~NotchScan(cfg, blocks, FALSE).out_of_range) =>
        NotchScan(cfg, blocks, FALSE).notch_penalty = RuleOn(cfg, blocks, 2, 1)

\* C31: in no directional pass of an AlignMacro call is a macro that was
\* put back because of overlap aligned later in the same pass (moved, marked
\* aligned and pushed on the queue as a propagation source).
C31_ConflictExcluded ==
    pc = "aligned_once" => hist.last # "align_retry"

\* the least element of the non-empty set S of numbers
Least(S) == CHOOSE m \in S : \A s \in S : RLe(m, s)

\* the half-perimeter of the bounding box of the points with the
\* coordinates X and Y
HalfPerimeter(X, Y) == RAdd(RSub(Greatest(X), Least(X)), RSub(Greatest(Y), Least(Y)))

\* weight times the half-perimeter of the box that spans the terminals of
\* net and, of each of its blocks, the points at the fractions F of the
\* width and height (1/2: the center; 0 and 1: the two corners)
NetLength(net, bs, F) ==
    RMul(I(net.weight),
         HalfPerimeter({net.terminals[i][1] : i \in Idx(net.terminals)}
                           \cup {RAdd(bs[net.blocks[i]].x, RMul(f, bs[net.blocks[i]].width)) :
                                    i \in Idx(net.blocks), f \in F},
                       {net.terminals[i][2] : i \in Idx(net.terminals)}
                           \cup {RAdd(bs[net.blocks[i]].y, RMul(f, bs[net.blocks[i]].height)) :
                                    i \in Idx(net.blocks), f \in F}))

\* C32: after SetSeq (PackFloorplan and CalculateWirelength) wirelength_ is
\* the sum over the nets of weight times the half-perimeter of the box that
\* spans the centers of the net's blocks and its terminals; for the input of
\* two blocks with one net of weight 1 and no terminal this is the Manhattan
\* distance between the two centers.
C32_WirelengthOfCenters ==
    pc = "start" =>
        met.wirelength =
            RSum([k \in Idx(cfg.nets) |-> NetLength(cfg.nets[k], blocks, {R(1, 2)})])

\* C33: after the cost evaluation of a layout whose packed width_ and
\* height_ are inside the outline, no neighbour lookup of the grid scan of
\* CalculateNotchPenalty was outside the num_x by num_y grid.
C33_NeighbourReadsInGrid ==
    (pc = "decide" /\ InsideOutline) => ~NotchScan(cfg, blocks, FALSE).out_of_range

\* C34: after the six cost terms have been evaluated on a packed layout,
\* every block has the x and y PackFloorplan gave it for the current
\* sequences and sizes, and the alignment flag false it was constructed with.
C34_EvaluationKeepsBlocks ==
    pc = "decide" =>
        /\ blocks = PackFloorplan(blocks, pos_seq, neg_seq).blocks
        /\ \A i \in Idx(blocks) : ~blocks[i].flag

\* the workers that have returned so far have finite costs
FiniteCosts ==
    \A w \in Workers : fp.th[w].state \in {"returned", "deleted"} => fp.th[w].cost[2] > 0

\* C35: in a Floorplan run whose worker costs are finite, wherever best_sa
\* is dereferenced (the read of a level's result; AlignMacro, GetBlocks,
\* IsFeasible and the delete after the last level) it points to a core that
\* was constructed and is not deleted, and no core is deleted twice.
C35_BestSaAlive ==
    FiniteCosts =>
        /\ fp.phase \in {"read", "align"} =>
              /\ fp.best_sa # NoCore
              /\ fp.th[fp.best_sa].state = "returned"
        /\ \A w \in Workers : fp.th[w].state # "deleted_twice"

\* Floorplan has returned with the winner of the first level as best_sa: it
\* outlived the delete loops of both levels, in which a dearer worker of the
\* last level was deleted
C35_Witness ==
    /\ fp.phase = "end"
    /\ FiniteCosts
    /\ fp.best_sa[1] = 0
    /\ fp.th[fp.best_sa].state = "deleted"
    /\ \E w \in Workers : w[1] = NumLevel - 1 /\ fp.th[w].state = "deleted"

\* C36: in a FastSA run, restarts included, ShrinkBlocks has run at most
\* max_num_shrink = int(1 / shrink_freq) times, and the run never evaluates
\* step % modulo_base with modulo_base = int(max_num_step * shrink_freq) = 0.
C36_ShrinkBudget ==
    /\ sa.num_shrink <= max_num_shrink(cfg)
    /\ ~(pc = "crashed" /\ hist.last = "accept" /\ modulo_base(cfg) = 0)

AlignDirs == <<"left", "right", "bottom", "top">>

\* the blocks at the start of the queue loop of pass n (after its seed
\* loop) of a call of AlignMacro on the blocks bs
PassStart(c, bs, th, n) ==
    LET before == AlignPasses(c, [i \in Idx(bs) |-> SnapToBoundary(c, bs[i], th)], th,
                              SubSeq(AlignDirs, 1, n - 1), NoConflict).blocks
    IN  AlignSeed(c, before, MacroIdList(before), 1, <<>>, AlignDirs[n]).blocks

\* block b lies on one of the two outline boundaries of the axis of dir
OnOutline(c, b, dir) ==
    IF dir \in {"left", "right"}
    THEN b.x = Zero \/ RGe(RAdd(b.x, b.width), c.outline_width)
    ELSE b.y = Zero \/ RGe(RAdd(b.y, b.height), c.outline_height)

\* C37: in every call of AlignMacro, the first and a later one on the same
\* blocks, at the start of each of the four passes a hard macro is marked
\* aligned exactly when it lies on an outline boundary of the axis of the
\* pass.
C37_FlagsAtPassStart ==
    pc \in {"align_input", "aligned_once"} =>
        \A n \in 1 .. Len(AlignDirs) :
            \E s \in {PassStart(cfg, blocks, AlignThreshold(cfg, blocks), n)} :
                \A i \in Idx(s) :
                    s[i].num_macro > 0 => (s[i].flag <=> OnOutline(cfg, s[i], AlignDirs[n]))

\* no element occurs twice in the sequence q
NoRepeat(q) == \A a, b \in 1 .. Len(q) : q[a] = q[b] => a = b

\* C38: the AlignMacro call that has just run on pre_blocks has ended, and
\* in each of its four passes every hard macro was pushed on the queue at
\* most once, so the queue loop of the pass made at most one iteration per
\* hard macro.
C38_PushedOncePerPass ==
    pc \in {"aligned_once", "aligned_twice"} =>
        \E r \in {AlignMacroRun(cfg, pre_blocks)} :
            /\ r.blocks = blocks
            /\ Len(r.conflict.pushed) = Len(AlignDirs)
            /\ \A p \in 1 .. Len(AlignDirs) :
                  /\ NoRepeat(r.conflict.pushed[p])
                  /\ Len(r.conflict.pushed[p]) <= Len(MacroIdList(blocks))

\* a call in whose pass an alignment was put back and tried again, and in
\* one pass of which every hard macro was pushed: a seed and the macros the
\* propagation reached
C38_Witness ==
    /\ pc = "aligned_once"
    /\ hist.last = "align_retry"
    /\ \E r \in {AlignMacroRun(cfg, pre_blocks)} :
          \E p \in 1 .. Len(AlignDirs) :
              /\ Len(r.conflict.pushed[p]) = Len(MacroIdList(blocks))
              /\ \E k \in 1 .. Len(r.conflict.pushed[p]) :
                    ~OnOutline(cfg, pre_blocks[r.conflict.pushed[p][k]], AlignDirs[p])

\* the blocks whose x and y AlignMacro never writes in the evaluation of the
\* layout in m: the soft blocks, and every block of a layout over the
\* outline
LeftByAlign(c, bs, m) ==
    {i \in Idx(bs) :
        \/ bs[i].num_macro = 0
        \/ RGt(m.width, c.outline_width) \/ RGt(m.height, c.outline_height)}

\* C39: FastSA leaves its while loop only through the PackFloorplan of the
\* final step, which follows every Restore, and when it has left the loop
\* and when it has returned, width_ and height_ are those PackFloorplan
\* gives for the final sequences and sizes, and the blocks the alignment
\* does not move have the packed x and y (no stale coordinate of a rejected
\* move).
C39_FinalPack ==
    /\ [](pc \in {"finish", "done"} =>
            \E p \in {PackFloorplan(blocks, pos_seq, neg_seq)} :
                /\ met.width = p.width
                /\ met.height = p.height
                /\ \A i \in LeftByAlign(cfg, blocks, met) :
                      blocks[i].x = p.blocks[i].x /\ blocks[i].y = p.blocks[i].y)
    /\ [][pc' = "finish" => (pc = "end_step" /\ hist'.last = "final_step")]_vars

\* FastSA has returned after a run whose last move, a swap in pos_seq of a
\* soft block, was rejected and put back by Restore
C39_Witness ==
    /\ pc = "done"
    /\ cfg.max_num_step >= 2
    /\ action_id = 1
    /\ pos_seq = pre_pos_seq
    /\ \E i \in Idx(blocks) : blocks[i].num_macro = 0

\* the widths of the masters of the list fillers, in sites, added up
RECURSIVE SitesOf(_, _)
SitesOf(fillers, site_width) ==
    IF fillers = <<>> THEN 0
    ELSE Head(fillers) \div site_width + SitesOf(Tail(fillers), site_width)

\* the list is empty or fills gap sites exactly with masters of the implant
FillsOrFails(fillers, gap, implant) ==
    \/ fillers = <<>>
    \/ /\ SitesOf(fillers, fill.site_width) = gap
       /\ \A k \in 1 .. Len(fillers) :
             \E m \in 1 .. Len(fill.masters[implant]) : fillers[k] = fill.masters[implant][m]

\* C40: for masters sorted by non-increasing width, gapFillers returns the
\* empty list or a list of masters of the implant whose widths in sites add
\* up to gap; every entry of gap_fillers_ is such a list for its gap (a gap
\* that failed holds no partial fill), and a non-empty entry is never
\* changed by a later call and is what a later call for its implant and gap
\* returns.
C40_GapFillers ==
    /\ [](fill.calls > 0 => FillsOrFails(fill.fillers, fill.gap, fill.implant))
    /\ [](\A i \in DOMAIN fill.gap_fillers : \A g \in 1 .. Len(fill.gap_fillers[i]) :
             FillsOrFails(fill.gap_fillers[i][g], g - 1, i))
    /\ [][\A i \in DOMAIN fill.gap_fillers : \A g \in 1 .. Len(fill.gap_fillers[i]) :
             fill.gap_fillers[i][g] # <<>> =>
                 /\ fill'.gap_fillers[i][g] = fill.gap_fillers[i][g]
                 /\ (fill'.implant = i /\ fill'.gap = g - 1) =>
                        (fill'.cached /\ fill'.fillers = fill.gap_fillers[i][g])]_vars

\* a call has returned a list of several masters it found in gap_fillers_,
\* while gap_fillers_ of the same implant holds a gap that failed after
\* masters had been pushed and has no master left
C40_Witness ==
    /\ fill.calls > 1
    /\ fill.cached
    /\ Len(fill.fillers) > 1
    /\ \E g \in 1 .. Len(fill.gap_fillers[fill.implant]) :
          /\ fill.gap_fillers[fill.implant][g] = <<>>
          /\ \E m \in {fill.masters[fill.implant]} :
                GreedyFillKept(m, 1, fill.site_width, g - 1, m[Len(m)] = fill.site_width,
                               <<>>, 0) # <<>>

=============================================================================
